---- MODULE Spec2Model ----
(***************************************************************************)
(* Call-stage state machine of the business-support hotline:               *)
(*   - SwissGermanBusinessSupportService (services/elevenLabsService.js,   *)
(*     second module of the file): classification, stage handlers,         *)
(*     session maps, cleanup;                                              *)
(*   - EnhancedSwissGermanCallController (unnamed/part_000): the gather    *)
(*     webhook, its confidence filter, stage dispatch, the 8 s race, the   *)
(*     status webhook;                                                     *)
(*   - BusinessSupportService (unnamed/part_001): the remote-only variant  *)
(*     of the same service.                                                *)
(***************************************************************************)
EXTENDS Integers, Sequences, FiniteSets, TLC

(***************************************************************************)
(* Text primitives of JavaScript used by the service, on TLA+ strings.     *)
(***************************************************************************)
UpperChars == "ABCDEFGHIJKLMNOPQRSTUVWXYZÄÖÜ"
LowerChars == "abcdefghijklmnopqrstuvwxyzäöü"

CharAt(s, i) == SubSeq(s, i, i)

toLowerChar(ch) ==
  IF \E i \in 1..Len(UpperChars) : CharAt(UpperChars, i) = ch
  THEN LET i == CHOOSE j \in 1..Len(UpperChars) : CharAt(UpperChars, j) = ch
       IN  CharAt(LowerChars, i)
  ELSE ch

\* String.prototype.toLowerCase, halving the string to keep the recursion shallow
RECURSIVE toLowerCase(_)
toLowerCase(s) ==
  IF Len(s) = 0 THEN ""
  ELSE IF Len(s) = 1 THEN toLowerChar(s)
  ELSE LET half == Len(s) \div 2
       IN  toLowerCase(SubSeq(s, 1, half)) \o toLowerCase(SubSeq(s, half + 1, Len(s)))

IsSpace(ch) == ch \in {" ", "\t", "\n"}

RECURSIVE trimStart(_)
trimStart(s) ==
  IF s # "" /\ IsSpace(CharAt(s, 1)) THEN trimStart(SubSeq(s, 2, Len(s))) ELSE s

RECURSIVE trimEnd(_)
trimEnd(s) ==
  IF s # "" /\ IsSpace(CharAt(s, Len(s))) THEN trimEnd(SubSeq(s, 1, Len(s) - 1)) ELSE s

trim(s) == trimEnd(trimStart(s))

\* String.prototype.includes
includes(text, keyword) ==
  \E i \in 1..(Len(text) - Len(keyword) + 1) :
     SubSeq(text, i, i + Len(keyword) - 1) = keyword

\* /^(a1|a2|...)+$/i .test(s): s is a non-empty concatenation of alternatives,
\* letter case ignored.
RECURSIVE IsRepetitionOf(_, _)
IsRepetitionOf(s, alternatives) ==
  \E a \in alternatives :
     /\ Len(a) <= Len(s)
     /\ SubSeq(s, 1, Len(a)) = a
     /\ \/ Len(a) = Len(s)
        \/ IsRepetitionOf(SubSeq(s, Len(a) + 1, Len(s)), alternatives)

regexTest(alternatives, s) == s # "" /\ IsRepetitionOf(toLowerCase(s), alternatives)

(***************************************************************************)
(* Keyword sets and limits of SwissGermanBusinessSupportService.           *)
(***************************************************************************)
urgentKeywords ==
  { "kaputt", "funktioniert nöd", "geit nöd", "abgsturzt", "faled", "error", "problem",
    "chan nöd zuegreife", "date verlore", "sicherheitsproblem", "hack", "zahlig",
    "rechnig", "server", "datenbank", "system", "websiite", "sofort", "dringend",
    "schnäll", "jetzt", "hiuf", "notfall" }

nonUrgentKeywords ==
  { "frag", "wie", "chönd", "schulig", "lerne", "feature", "aafrag",
    "iistellige", "konto", "plan", "upgrade", "termin", "meetig",
    "informatione", "dokumentation", "aaleitig", "tutorial" }

noisePatterns ==
  << {"äh", "öh", "em", "ja"}, {"hoi", "grüezi", "tschau"}, {"ja", "nei", "okay", "ok"} >>

MinSpeechLength == 3
MaxSpeechLength == 500
\* recognition confidence is modelled in hundredths: 0.4 is 40
MinConfidence == 40
AnalysisTimeoutMs == 8000
CleanupThreshold == 500
QuickConfidence == 80
UnclearConfidence == 30

\* reduce((score, keyword) => score + (lowerText.includes(keyword) ? 1 : 0), 0)
keywordScore(keywords, lowerText) == Cardinality({k \in keywords : includes(lowerText, k)})

quickClassify_Swapped(text) ==
  LET lowerText == toLowerCase(text)
      urgentScore == keywordScore(urgentKeywords, lowerText)
      nonUrgentScore == keywordScore(nonUrgentKeywords, lowerText)
  IN  IF urgentScore > nonUrgentScore /\ urgentScore > 0 THEN "not_urgent"
      ELSE IF nonUrgentScore > urgentScore /\ nonUrgentScore > 0 THEN "urgent"
      ELSE "analyze_needed"

quickClassify(text) ==
  LET lowerText == toLowerCase(text)
      urgentScore == keywordScore(urgentKeywords, lowerText)
      nonUrgentScore == keywordScore(nonUrgentKeywords, lowerText)
  IN  IF urgentScore > nonUrgentScore /\ urgentScore > 0 THEN "urgent"
      ELSE IF nonUrgentScore > urgentScore /\ nonUrgentScore > 0 THEN "not_urgent"
      ELSE "analyze_needed"

validateInput_NoNoiseFilter(speechText) ==
  IF speechText = "" \/ Len(trim(speechText)) < MinSpeechLength
  THEN [valid |-> FALSE, reason |-> "Z churz"]
  ELSE IF Len(speechText) > MaxSpeechLength
  THEN [valid |-> FALSE, reason |-> "Z lang"]
  ELSE [valid |-> TRUE, reason |-> "none"]

validateInput(speechText) ==
  IF speechText = "" \/ Len(trim(speechText)) < MinSpeechLength
  THEN [valid |-> FALSE, reason |-> "Z churz"]
  ELSE IF Len(speechText) > MaxSpeechLength
  THEN [valid |-> FALSE, reason |-> "Z lang"]
  ELSE IF \E i \in 1..Len(noisePatterns) : regexTest(noisePatterns[i], trim(speechText))
  THEN [valid |-> FALSE, reason |-> "Noise input"]
  ELSE [valid |-> TRUE, reason |-> "none"]

(***************************************************************************)
(* Speech results delivered by the telephony webhook.                      *)
(***************************************************************************)
RECURSIVE Repeat(_, _)
Repeat(s, n) == IF n = 0 THEN "" ELSE s \o Repeat(s, n - 1)

LongUrgentSpeech == "de server isch kaputt " \o Repeat("bitte ", 80)
LongCalmSpeech == "ich han e frag " \o Repeat("bitte ", 81)

CoreSpeech == {"ok", "okay", "Server kaputt", "e frag", "guete tag"}

SpeechResults == CoreSpeech \cup {"", "server frag", LongUrgentSpeech, LongCalmSpeech}

\* callers who speak English
WebsiteDown == "our website is completely down and customers can't pay"
AccountSettings == "how do I change my account settings"
ExampleSpeech == {WebsiteDown, AccountSettings}

\* quickClassify and validateInput of every speech result, evaluated once
Classified ==
  [ t \in SpeechResults \cup ExampleSpeech |->
      [ validation |-> validateInput(t),
        quick |-> quickClassify(t),
        trimmedLength |-> Len(trim(t)),
        urgentScore |-> keywordScore(urgentKeywords, toLowerCase(t)),
        nonUrgentScore |-> keywordScore(nonUrgentKeywords, toLowerCase(t)) ] ]

(***************************************************************************)
(* Session state of the service and the requests in flight.                *)
(***************************************************************************)
CallIds == {"CA1", "CA2"}

Stages ==
  { "initial", "urgent_details", "collect_address", "non_urgent_callback",
    "schedule_callback", "urgent_complete", "callback_complete" }

\* what Map.get and a missing object field give
Undefined == "undefined"

\* outstanding remote classifications per call
MaxOutstanding == 1
\* speech events delivered to the gather webhook, over all calls
MaxEvents == 4
\* the same, when every speech result is tried on one call
MaxClassifyEvents == 4
\* the same, for the call served by BusinessSupportService
MaxBusinessEvents == 4
MaxSheetEvents == 4
MaxCleanupEvents == 4
MaxLiveEvents == 4
MaxExampleEvents == 4
MaxSessionEvents == 6
MaxAdminEvents == 3
\* the same, for two calls that each complete a flow
MaxIssueEvents == 6
\* the same, for one call that hangs up on completion
MaxHangupEvents == 6
\* the same, for one call with valid speech events only
MaxValidEvents == 4
\* rows the call log sheet may grow to
MaxLogRows == 2
\* rows the operations on the spreadsheet connection may save
MaxSavedRows == 2
\* notes a row of the urgent sheet may collect
MaxNotes == 2
\* Math.random() is drawn as k / RandomResolution
RandomResolution == 1000
RandomDraws == {0, RandomResolution - 1}
ReferenceBase == 100000
ReferenceSpan == 900000

ContextIds == 1..(MaxOutstanding + 1)
Free == <<"free">>

\* webhook Confidence values, in hundredths (0 when the field is missing)
Confidences == {39, 40}

\* what the remote classifier may answer: a JSON object with urgency urgent,
\* not_urgent or anything else, text that is no JSON object, or a transport error
RemoteReplies == {"urgent", "not_urgent", "other_urgency", "unparsable", "error"}

EmptyData ==
  [ detailedMessage |-> Undefined, timestamp |-> Undefined, businessAddress |-> Undefined,
    referenceNumber |-> Undefined, status |-> Undefined, estimatedResponse |-> Undefined,
    callbackTime |-> Undefined ]

NoResponse ==
  [ kind |-> "none", gather |-> FALSE, hangup |-> FALSE, text |-> "none",
    urgency |-> "none", confidence |-> 0, referenceNumber |-> Undefined,
    nextStage |-> Undefined, handler |-> "none", remoteCalls |-> 0,
    settled |-> "none" ]

NoEvent ==
  [ pc |-> "idle", speechResult |-> "", confidence |-> 0, currentStage |-> "unread",
    response |-> NoResponse ]

VARIABLES
  callStages,         \* this.callStages: callSid -> stage, Undefined when absent
  conversations,      \* this.conversations: callSid -> context array (a ContextId), 0 when absent
  contexts,           \* the context arrays alive for each call: ContextId -> array or Free
  collectedData,      \* this.collectedData: callSid -> data object, EmptyData when absent
  urgentCases,        \* this.urgentCases: the callSids mapped (to their collectedData object)
  otherConversations, \* entries of this.conversations that belong to other calls
  otherStages,        \* entries of this.callStages that belong to other calls
  remoteCalls,        \* openai.chat.completions.create calls not yet settled, per call
  events,             \* the /webhook/gather request of each call and its response
  delivered,          \* number of speech events delivered so far
  initialized,        \* googleSheetsService.initialized
  urgentSheet,        \* rows of the sheet of urgent cases, in sheet order
  callbackSheet,      \* rows of the sheet of callback requests, in sheet order
  callLogsSheet,      \* number of rows of the call log sheet
  adminResult,        \* what the last /admin/update-case request was answered
  doc,                \* this.doc: the initialize() call whose GoogleSpreadsheet it is
  docInfo,            \* what each GoogleSpreadsheet object has loaded of the document
  handles,            \* this.urgentSheet, this.callbackSheet, this.callLogsSheet: non-null
  spreadsheet,        \* the titles of the sheets of the Google spreadsheet
  addSheetCalls,      \* doc.addSheet requests sent so far, per title
  sheetCalls          \* how far each caller of the spreadsheet service has got

vars ==
  << callStages, conversations, contexts, collectedData, urgentCases,
     otherConversations, otherStages, remoteCalls, events, delivered,
     initialized, urgentSheet, callbackSheet, callLogsSheet, adminResult,
     doc, docInfo, handles, spreadsheet, addSheetCalls, sheetCalls >>

serviceVars ==
  << callStages, conversations, contexts, collectedData, urgentCases, otherConversations, otherStages >>

connectionVars == << doc, docInfo, handles, spreadsheet, addSheetCalls, sheetCalls >>

sheetVars ==
  << initialized, urgentSheet, callbackSheet, callLogsSheet, adminResult, connectionVars >>

(***************************************************************************)
(* SwissGermanBusinessSupportService                                       *)
(***************************************************************************)
getCallStage_NoDefault(callSid) == callStages[callSid]

getCallStage(callSid) ==
  IF callStages[callSid] = Undefined THEN "initial" ELSE callStages[callSid]

getUrgentCases == { collectedData[c] : c \in urgentCases }

getScheduledCallbacks_Unfiltered == { collectedData[c] : c \in CallIds }

getScheduledCallbacks ==
  { collectedData[c] : c \in {d \in CallIds : collectedData[d].status = "callback_scheduled"} }

\* 'UBG-' + Math.floor(100000 + Math.random() * 900000)
generateReference(prefix, draw) ==
  prefix \o ToString(ReferenceBase + ((draw * ReferenceSpan) \div RandomResolution))

getQuickResponse_StageUrgent(urgency) ==
  [ urgency |-> urgency, confidence |-> QuickConfidence,
    suggestedResponse |-> "quick", requiresAddress |-> TRUE, stage |-> "urgent_details" ]

getQuickResponse(urgency) ==
  IF urgency = "urgent"
  THEN [ urgency |-> "urgent", confidence |-> QuickConfidence,
         suggestedResponse |-> "quick_urgent", requiresAddress |-> TRUE,
         stage |-> "urgent_details" ]
  ELSE [ urgency |-> "not_urgent", confidence |-> QuickConfidence,
         suggestedResponse |-> "quick_not_urgent", requiresAddress |-> FALSE,
         stage |-> "non_urgent_callback" ]

\* getFallbackResponse('unclear'): no stage is stored
getFallbackResponse ==
  [ urgency |-> "not_urgent", confidence |-> UnclearConfidence,
    suggestedResponse |-> "unclear", requiresAddress |-> FALSE, stage |-> Undefined ]

formatAnalysisResponse_StageUrgent(reply) ==
  [ urgency |-> IF reply \in {"urgent", "not_urgent"} THEN reply ELSE Undefined,
    confidence |-> QuickConfidence,
    suggestedResponse |-> "ai",
    requiresAddress |-> (reply = "urgent"),
    stage |-> "urgent_details" ]

\* the stage analyzeIssue stores for a parsed reply, and formatAnalysisResponse
formatAnalysisResponse(reply) ==
  [ urgency |-> IF reply \in {"urgent", "not_urgent"} THEN reply ELSE Undefined,
    confidence |-> QuickConfidence,
    suggestedResponse |-> "ai",
    requiresAddress |-> (reply = "urgent"),
    stage |-> IF reply = "urgent" THEN "urgent_details" ELSE "non_urgent_callback" ]

Now == "timestamp"

analyzeIssue_KeywordsFirst(speechText) ==
  LET validation == Classified[speechText].validation
      quickResult == Classified[speechText].quick
  IN  IF quickResult # "analyze_needed"
      THEN [remote |-> FALSE, result |-> getQuickResponse(quickResult)]
      ELSE IF ~validation.valid
      THEN [remote |-> FALSE, result |-> getFallbackResponse]
      ELSE [remote |-> TRUE, result |-> getFallbackResponse]

\* the part of analyzeIssue that runs before the remote call is awaited
analyzeIssue(speechText) ==
  LET validation == Classified[speechText].validation
      quickResult == Classified[speechText].quick
  IN  IF ~validation.valid
      THEN [remote |-> FALSE, result |-> getFallbackResponse]
      ELSE IF quickResult # "analyze_needed"
      THEN [remote |-> FALSE, result |-> getQuickResponse(quickResult)]
      ELSE [remote |-> TRUE, result |-> getFallbackResponse]

\* the part of analyzeIssue that runs when the remote call settles
analyzeIssueSettled_DefaultCalm(speechText, reply) ==
  IF reply \in {"urgent", "not_urgent", "other_urgency"}
  THEN [parsed |-> TRUE, result |-> formatAnalysisResponse(reply)]
  ELSE LET quickResult == Classified[speechText].quick
       IN  [ parsed |-> FALSE,
             result |-> getQuickResponse(IF quickResult # "analyze_needed"
                                         THEN quickResult ELSE "not_urgent") ]

analyzeIssueSettled(speechText, reply) ==
  IF reply \in {"urgent", "not_urgent", "other_urgency"}
  THEN [parsed |-> TRUE, result |-> formatAnalysisResponse(reply)]
  ELSE LET quickResult == Classified[speechText].quick
       IN  [ parsed |-> FALSE,
             result |-> getQuickResponse(IF quickResult # "analyze_needed"
                                         THEN quickResult ELSE "urgent") ]

handleUrgentDetails_StoresFirst(speechText, callSid) ==
  [ result |-> IF ~Classified[speechText].validation.valid
               THEN [response |-> "need_details", nextStage |-> "urgent_details"]
               ELSE [response |-> "got_details", nextStage |-> "collect_address"],
    data |-> [collectedData EXCEPT ![callSid].detailedMessage = speechText,
                                   ![callSid].timestamp = Now],
    stages |-> IF ~Classified[speechText].validation.valid THEN callStages
               ELSE [callStages EXCEPT ![callSid] = "collect_address"] ]

handleUrgentDetails_StageOnly(speechText, callSid) ==
  IF ~Classified[speechText].validation.valid
  THEN [ result |-> [response |-> "need_details", nextStage |-> "urgent_details"],
         data |-> collectedData, stages |-> callStages ]
  ELSE [ result |-> [response |-> "got_details", nextStage |-> "collect_address"],
         data |-> collectedData,
         stages |-> [callStages EXCEPT ![callSid] = "collect_address"] ]

handleUrgentDetails_SharedStage(speechText, callSid) ==
  IF ~Classified[speechText].validation.valid
  THEN [ result |-> [response |-> "need_details", nextStage |-> "urgent_details"],
         data |-> collectedData, stages |-> callStages ]
  ELSE [ result |-> [response |-> "got_details", nextStage |-> "collect_address"],
         data |-> [collectedData EXCEPT ![callSid].detailedMessage = speechText,
                                        ![callSid].timestamp = Now],
         stages |-> [c \in CallIds |-> "collect_address"] ]

handleUrgentDetails(speechText, callSid) ==
  IF ~Classified[speechText].validation.valid
  THEN [ result |-> [response |-> "need_details", nextStage |-> "urgent_details"],
         data |-> collectedData, stages |-> callStages ]
  ELSE [ result |-> [response |-> "got_details", nextStage |-> "collect_address"],
         data |-> [collectedData EXCEPT ![callSid].detailedMessage = speechText,
                                        ![callSid].timestamp = Now],
         stages |-> [callStages EXCEPT ![callSid] = "collect_address"] ]

collectAddress_NoRegistry(speechText, callSid, draws, loggerThrows) ==
  IF ~Classified[speechText].validation.valid
  THEN [ result |-> [ response |-> "need_address", referenceNumber |-> Undefined,
                      addressReceived |-> FALSE, caseComplete |-> FALSE ],
         data |-> collectedData, cases |-> urgentCases, stages |-> callStages ]
  ELSE LET referenceNumber == generateReference("UBG-", draws[1])
       IN  [ result |-> [ response |-> IF loggerThrows THEN "escalated_fallback" ELSE "escalated",
                          referenceNumber |-> IF loggerThrows
                                              THEN generateReference("UBG-", draws[2])
                                              ELSE referenceNumber,
                          addressReceived |-> TRUE, caseComplete |-> TRUE ],
             data |-> [collectedData EXCEPT ![callSid].businessAddress = speechText,
                                            ![callSid].referenceNumber = referenceNumber,
                                            ![callSid].status = "urgent_escalated",
                                            ![callSid].estimatedResponse = "innerhalb 30 Minute"],
             cases |-> urgentCases,
             stages |-> [callStages EXCEPT ![callSid] = "urgent_complete"] ]

\* draws: the values of the two Math.random() calls (try block, catch block);
\* loggerThrows: logger.info of the try block throws, the one way into the catch
collectAddress(speechText, callSid, draws, loggerThrows) ==
  IF ~Classified[speechText].validation.valid
  THEN [ result |-> [ response |-> "need_address", referenceNumber |-> Undefined,
                      addressReceived |-> FALSE, caseComplete |-> FALSE ],
         data |-> collectedData, cases |-> urgentCases, stages |-> callStages ]
  ELSE LET referenceNumber == generateReference("UBG-", draws[1])
       IN  [ result |-> [ response |-> IF loggerThrows THEN "escalated_fallback" ELSE "escalated",
                          referenceNumber |-> IF loggerThrows
                                              THEN generateReference("UBG-", draws[2])
                                              ELSE referenceNumber,
                          addressReceived |-> TRUE, caseComplete |-> TRUE ],
             data |-> [collectedData EXCEPT ![callSid].businessAddress = speechText,
                                            ![callSid].referenceNumber = referenceNumber,
                                            ![callSid].status = "urgent_escalated",
                                            ![callSid].estimatedResponse = "innerhalb 30 Minute"],
             cases |-> urgentCases \cup {callSid},
             stages |-> [callStages EXCEPT ![callSid] = "urgent_complete"] ]

handleNonUrgentCallback_Validates(speechText, callSid) ==
  [ result |-> [response |-> "ask_callback_time", needsCallbackTime |-> TRUE],
    stages |-> IF Classified[speechText].validation.valid
               THEN [callStages EXCEPT ![callSid] = "schedule_callback"]
               ELSE callStages ]

handleNonUrgentCallback(speechText, callSid) ==
  [ result |-> [response |-> "ask_callback_time", needsCallbackTime |-> TRUE],
    stages |-> [callStages EXCEPT ![callSid] = "schedule_callback"] ]

scheduleCallback(speechText, callSid, draws, loggerThrows) ==
  LET referenceNumber == generateReference("CBK-", draws[1])
  IN  [ result |-> [ response |-> IF loggerThrows THEN "scheduled_fallback" ELSE "scheduled",
                     referenceNumber |-> IF loggerThrows
                                         THEN generateReference("CBK-", draws[2])
                                         ELSE referenceNumber,
                     callbackScheduled |-> TRUE ],
        data |-> [collectedData EXCEPT ![callSid].callbackTime = speechText,
                                       ![callSid].referenceNumber = referenceNumber,
                                       ![callSid].status = "callback_scheduled",
                                       ![callSid].timestamp = Now],
        stages |-> [callStages EXCEPT ![callSid] = "callback_complete"] ]

conversationsSize ==
  Cardinality({c \in CallIds : conversations[c] # 0}) + otherConversations

\* cleanup(): TRUE when the maps are cleared
cleanup == conversationsSize > CleanupThreshold

(***************************************************************************)
(* Context arrays: an array lives while the conversations map or a remote  *)
(* call not yet settled refers to it.                                      *)
(***************************************************************************)
Referenced(stored, calls) == {stored} \cup {calls[i].context : i \in 1..Len(calls)}

Collect(arrays, stored, calls) ==
  [id \in ContextIds |-> IF id \in Referenced(stored, calls) THEN arrays[id] ELSE Free]

RemoveAt(seq, i) == SubSeq(seq, 1, i - 1) \o SubSeq(seq, i + 1, Len(seq))

(***************************************************************************)
(* GoogleSheetsService                                                     *)
(***************************************************************************)
\* how a spreadsheet operation goes: the spreadsheet cannot be reached or is not
\* configured, the operation succeeds, or the operation throws
SheetOutcomes == {"unavailable", "ok", "throws"}

\* safeExecute: initialize() when needed, then the operation; done tells whether
\* the operation ran to its end, otherwise the fallback value is returned
safeExecute(outcome) ==
  [ initialized |-> initialized \/ outcome # "unavailable",
    done |-> outcome = "ok" ]

NewRow(referenceNumber, status) ==
  [referenceNumber |-> referenceNumber, status |-> status, notes |-> <<"created">>]

\* saveUrgentCase: the rows of the urgent sheet afterwards
saveUrgentCase_Twice(caseData, outcome) ==
  IF safeExecute(outcome).done
  THEN urgentSheet \o << NewRow(caseData.referenceNumber, "Neu"),
                         NewRow(caseData.referenceNumber, "Neu") >>
  ELSE urgentSheet

saveUrgentCase(caseData, outcome) ==
  IF safeExecute(outcome).done
  THEN Append(urgentSheet, NewRow(caseData.referenceNumber, "Neu"))
  ELSE urgentSheet

\* saveCallbackRequest: the rows of the callback sheet afterwards
saveCallbackRequest(callbackData, outcome) ==
  IF safeExecute(outcome).done
  THEN Append(callbackSheet, NewRow(callbackData.referenceNumber, "Plannt"))
  ELSE callbackSheet

\* logCall: the number of rows of the call log afterwards
logCall(outcome) ==
  IF safeExecute(outcome).done THEN callLogsSheet + 1 ELSE callLogsSheet

findRow_Last(rows, referenceNumber) ==
  IF \E i \in 1..Len(rows) : rows[i].referenceNumber = referenceNumber
  THEN CHOOSE i \in 1..Len(rows) :
         /\ rows[i].referenceNumber = referenceNumber
         /\ \A j \in (i + 1)..Len(rows) : rows[j].referenceNumber # referenceNumber
  ELSE 0

\* rows.find(row => row.get('Referenz_Nummer') === referenceNumber): the index of
\* the first such row, 0 when there is none
findRow(rows, referenceNumber) ==
  IF \E i \in 1..Len(rows) : rows[i].referenceNumber = referenceNumber
  THEN CHOOSE i \in 1..Len(rows) :
         /\ rows[i].referenceNumber = referenceNumber
         /\ \A j \in 1..(i - 1) : rows[j].referenceNumber # referenceNumber
  ELSE 0

\* GoogleSheetsService.updateCaseStatus: the result and the rows afterwards
updateCaseStatus(referenceNumber, status, notes, outcome) ==
  LET target == findRow(urgentSheet, referenceNumber)
  IN  IF ~safeExecute(outcome).done
      THEN [ result |-> [success |-> FALSE, error |-> "Google Sheets not available"],
             rows |-> urgentSheet ]
      ELSE IF target = 0
      THEN [ result |-> [success |-> FALSE, error |-> "Case not found"],
             rows |-> urgentSheet ]
      ELSE [ result |-> [success |-> TRUE, error |-> "none"],
             rows |-> [urgentSheet EXCEPT
                         ![target].status = status,
                         ![target].notes = IF notes = "" THEN @ ELSE Append(@, notes)] ]

(***************************************************************************)
(* GoogleSheetsService.initialize, one await at a time. The webhook        *)
(* specifications above summarise a spreadsheet operation by its outcome;  *)
(* the steps below follow the calls of initialize that are in progress.    *)
(***************************************************************************)
\* the sheets initialize gets or creates, in the order of its three awaits
SheetTitles == <<"Dringendi_Fäll", "Planti_Rückrüef", "Call_Logs">>

Titles == {SheetTitles[k] : k \in 1..Len(SheetTitles)}

\* who calls into the service: the constructor of the controller, and a
\* persistence operation through safeExecute
Callers == {"initializeServices", "saveUrgentCase"}

NoDoc == "none"

\* a GoogleSpreadsheet object before loadInfo
Unloaded == [loaded |-> FALSE, titles |-> {}]

\* where a caller continues once initialize has returned true
Proceed(caller) == IF caller = "initializeServices" THEN "done" ELSE "operation"

\* where a caller ends once initialize has returned false
GiveUp(caller) == IF caller = "initializeServices" THEN "done" ELSE "idle"

\* the caller enters the service: safeExecute goes on to the operation when
\* initialized is set, otherwise initialize runs up to await this.doc.loadInfo()
initialize(caller) ==
  /\ sheetCalls[caller] = "idle"
  /\ IF initialized
     THEN /\ sheetCalls' = [sheetCalls EXCEPT ![caller] = Proceed(caller)]
          /\ UNCHANGED <<doc, docInfo>>
     ELSE /\ doc' = caller
          /\ docInfo' = [docInfo EXCEPT ![caller] = Unloaded]
          /\ sheetCalls' = [sheetCalls EXCEPT ![caller] = "loadInfo"]
  /\ UNCHANGED <<serviceVars, remoteCalls, events, delivered, initialized, urgentSheet,
                 callbackSheet, callLogsSheet, adminResult, handles, spreadsheet,
                 addSheetCalls>>

\* doc.loadInfo() settles: the object the caller created knows the sheets of the
\* document, or initialize returns false from its catch
loadInfo(caller, loaded) ==
  /\ sheetCalls[caller] = "loadInfo"
  /\ IF loaded
     THEN /\ docInfo' = [docInfo EXCEPT ![caller] = [loaded |-> TRUE, titles |-> spreadsheet]]
          /\ sheetCalls' = [sheetCalls EXCEPT ![caller] = SheetTitles[1]]
     ELSE /\ sheetCalls' = [sheetCalls EXCEPT ![caller] = GiveUp(caller)]
          /\ UNCHANGED docInfo
  /\ UNCHANGED <<serviceVars, remoteCalls, events, delivered, initialized, urgentSheet,
                 callbackSheet, callLogsSheet, adminResult, doc, handles, spreadsheet,
                 addSheetCalls>>

\* getOrCreateSheet(title) on this.doc: "create" when doc.addSheet is to be called,
\* "load" when the sheet is known, "fail" when this.doc has not loaded its info
\* (sheetsByTitle throws and the catch returns null)
sheetLookup(title) ==
  IF ~docInfo[doc].loaded THEN "fail"
  ELSE IF title \notin docInfo[doc].titles THEN "create"
  ELSE "load"

\* the next await of initialize settles: this.<sheet> = await getOrCreateSheet(...)
\* for the title the caller waits on; request tells whether the request sent to
\* the spreadsheet succeeds (a second sheet with a title of the document is
\* refused). After the third sheet initialized is set and initialize returns true.
getOrCreateSheet(caller, request) ==
  /\ sheetCalls[caller] \in Titles
  /\ LET title == sheetCalls[caller]
         k == CHOOSE i \in 1..Len(SheetTitles) : SheetTitles[i] = title
         lookup == sheetLookup(title)
         created == lookup = "create" /\ request = "ok" /\ title \notin spreadsheet
         sheet == created \/ (lookup = "load" /\ request = "ok")
     IN  /\ addSheetCalls' = IF lookup = "create"
                             THEN [addSheetCalls EXCEPT ![title] = @ + 1]
                             ELSE addSheetCalls
         /\ spreadsheet' = IF created THEN spreadsheet \cup {title} ELSE spreadsheet
         /\ docInfo' = IF created
                       THEN [docInfo EXCEPT ![doc].titles = @ \cup {title}]
                       ELSE docInfo
         /\ handles' = [handles EXCEPT ![title] = sheet]
         /\ IF k < Len(SheetTitles)
            THEN /\ sheetCalls' = [sheetCalls EXCEPT ![caller] = SheetTitles[k + 1]]
                 /\ UNCHANGED initialized
            ELSE /\ sheetCalls' = [sheetCalls EXCEPT ![caller] = Proceed(caller)]
                 /\ initialized' = TRUE
  /\ UNCHANGED <<serviceVars, remoteCalls, events, delivered, urgentSheet, callbackSheet,
                 callLogsSheet, adminResult, doc>>

\* the reference number of the case the operation saves
SavedReference == "UBG-100000"

\* safeExecute runs the operation: the row is added when the sheet handle is set
\* and the request succeeds; a null handle or a failed request throws inside
\* safeExecute, which returns the fallback value
operation(caller, outcome) ==
  /\ sheetCalls[caller] = "operation"
  /\ sheetCalls' = [sheetCalls EXCEPT ![caller] = "idle"]
  /\ Len(urgentSheet) < MaxSavedRows \/ outcome # "ok" \/ ~handles[SheetTitles[1]]
  /\ urgentSheet' = IF handles[SheetTitles[1]]
                    THEN saveUrgentCase([referenceNumber |-> SavedReference], outcome)
                    ELSE urgentSheet
  /\ UNCHANGED <<serviceVars, remoteCalls, events, delivered, initialized, callbackSheet,
                 callLogsSheet, adminResult, doc, docInfo, handles, spreadsheet,
                 addSheetCalls>>

\* the service after construction, for a document that has the given sheets
InitConnection(existing) ==
  /\ doc = NoDoc
  /\ docInfo = [caller \in Callers |-> Unloaded]
  /\ handles = [title \in Titles |-> FALSE]
  /\ spreadsheet = existing
  /\ addSheetCalls = [title \in Titles |-> 0]
  /\ sheetCalls = [caller \in Callers |-> "idle"]

(***************************************************************************)
(* EnhancedSwissGermanCallController                                       *)
(***************************************************************************)
confidenceFilter_LengthOnly(confidence, speechResult) ==
  \/ speechResult = ""
  \/ Classified[speechResult].trimmedLength < MinSpeechLength

\* the confidence filter of handleGatherInput: TRUE when the event is turned away
confidenceFilter(confidence, speechResult) ==
  \/ confidence < MinConfidence
  \/ speechResult = ""
  \/ Classified[speechResult].trimmedLength < MinSpeechLength

Respond(callSid, response) ==
  events' = [events EXCEPT ![callSid].pc = "idle", ![callSid].response = response]

\* the response handleInitialIssueWithVoice builds from an analysis
InitialResponse(analysis) ==
  [ NoResponse EXCEPT
      !.kind = IF analysis.urgency = "urgent" THEN "urgent" ELSE "non_urgent",
      !.gather = TRUE, !.hangup = TRUE,
      !.text = analysis.suggestedResponse,
      !.urgency = analysis.urgency,
      !.confidence = analysis.confidence,
      !.handler = "analyzeIssue" ]

handleGatherInput(callSid, speechResult, confidence, outcome) ==
  /\ events[callSid].pc = "idle"
  /\ delivered' = delivered + 1
  /\ IF confidenceFilter(confidence, speechResult)
     THEN /\ UNCHANGED <<initialized, callLogsSheet>>
          /\ events' = [events EXCEPT ![callSid] =
            [ pc |-> "idle", speechResult |-> speechResult, confidence |-> confidence,
              currentStage |-> "unread",
              response |-> [NoResponse EXCEPT !.kind = "clarification", !.gather = TRUE,
                                              !.hangup = TRUE, !.text = "clarificationText"] ]]
     ELSE /\ callLogsSheet < MaxLogRows \/ outcome # "ok"
          /\ initialized' = safeExecute(outcome).initialized
          /\ callLogsSheet' = logCall(outcome)
          /\ events' = [events EXCEPT ![callSid] =
            [ pc |-> "logCall", speechResult |-> speechResult, confidence |-> confidence,
              currentStage |-> getCallStage(callSid), response |-> NoResponse ]]
  /\ UNCHANGED <<serviceVars, remoteCalls, urgentSheet, callbackSheet, adminResult,
                 connectionVars>>

HandledStages ==
  {"initial", "urgent_details", "collect_address", "non_urgent_callback", "schedule_callback"}

stageCase_PrefixMatch(currentStage) ==
  IF currentStage \in HandledStages THEN currentStage
  ELSE IF currentStage = "callback_complete" THEN "schedule_callback"
  ELSE IF currentStage = "urgent_complete" THEN "urgent_details"
  ELSE "default"

\* switch (currentStage): the case label taken
stageCase(currentStage) ==
  IF currentStage \in HandledStages THEN currentStage ELSE "default"

\* logCall has returned and the switch takes the given case
Dispatched(callSid, label) ==
  /\ events[callSid].pc = "logCall"
  /\ stageCase(events[callSid].currentStage) = label

\* context.push({role: 'user', ...}) on the stored array (or a fresh one), then
\* openai.chat.completions.create is called and awaited
createCompletion(callSid, speechText, method, raced) ==
  /\ Len(remoteCalls[callSid]) < MaxOutstanding
  /\ LET context == IF conversations[callSid] # 0 THEN conversations[callSid]
                    ELSE CHOOSE id \in ContextIds :
                           /\ contexts[callSid][id] = Free
                           /\ \A other \in ContextIds :
                                contexts[callSid][other] = Free => id <= other
         array == IF conversations[callSid] # 0
                  THEN contexts[callSid][context] ELSE <<>>
     IN  /\ contexts' = [contexts EXCEPT ![callSid][context] = Append(array, "user")]
         /\ remoteCalls' = [remoteCalls EXCEPT ![callSid] =
              Append(@, [speechText |-> speechText, context |-> context,
                         method |-> method, raced |-> raced])]

handleInitialIssueWithVoice(callSid) ==
  /\ Dispatched(callSid, "initial")
  /\ LET speechText == events[callSid].speechResult
         step == analyzeIssue(speechText)
     IN  IF ~step.remote
         THEN /\ callStages' = IF step.result.stage = Undefined THEN callStages
                               ELSE [callStages EXCEPT ![callSid] = step.result.stage]
              /\ Respond(callSid, InitialResponse(step.result))
              /\ UNCHANGED <<conversations, contexts, remoteCalls>>
         ELSE /\ createCompletion(callSid, speechText, "analyzeIssue", TRUE)
              /\ events' = [events EXCEPT ![callSid].pc = "race",
                                          ![callSid].response.handler = "analyzeIssue",
                                          ![callSid].response.remoteCalls = 1]
              /\ UNCHANGED <<callStages, conversations>>
  /\ UNCHANGED <<collectedData, urgentCases, otherConversations, otherStages, delivered>>
  /\ UNCHANGED sheetVars

\* the remote call settles: analyzeIssue resumes, and the controller as well when
\* the race of handleInitialIssueWithVoice is still open
remoteCallSettles(callSid, i, reply) ==
  /\ i \in 1..Len(remoteCalls[callSid])
  /\ LET call == remoteCalls[callSid][i]
         settled == analyzeIssueSettled(call.speechText, reply)
         left == RemoveAt(remoteCalls[callSid], i)
         stored == IF settled.parsed THEN call.context ELSE conversations[callSid]
         arrays == IF settled.parsed
                   THEN [contexts[callSid] EXCEPT ![call.context] = Append(@, "assistant")]
                   ELSE contexts[callSid]
     IN  /\ callStages' = [callStages EXCEPT ![callSid] = settled.result.stage]
         /\ conversations' = [conversations EXCEPT ![callSid] = stored]
         /\ contexts' = [contexts EXCEPT ![callSid] = Collect(arrays, stored, left)]
         /\ remoteCalls' = [remoteCalls EXCEPT ![callSid] = left]
         /\ IF call.raced
            THEN Respond(callSid, [InitialResponse(settled.result) EXCEPT !.remoteCalls = 1,
                                                                         !.settled = reply])
            ELSE UNCHANGED events
  /\ UNCHANGED <<collectedData, urgentCases, otherConversations, otherStages, delivered>>
  /\ UNCHANGED sheetVars

\* the 8 s timer of handleInitialIssueWithVoice wins the race
analysisTimeout(callSid) ==
  /\ events[callSid].pc = "race"
  /\ remoteCalls' = [remoteCalls EXCEPT ![callSid] =
       [i \in 1..Len(@) |-> [@[i] EXCEPT !.raced = FALSE]]]
  /\ Respond(callSid, [NoResponse EXCEPT !.kind = "fallback", !.gather = TRUE, !.hangup = TRUE,
                                         !.text = "fallbackText", !.handler = "analyzeIssue",
                                         !.remoteCalls = 1, !.settled = "timeout"])
  /\ UNCHANGED <<serviceVars, delivered>>
  /\ UNCHANGED sheetVars

handleUrgentDetailsWithVoice(callSid) ==
  /\ Dispatched(callSid, "urgent_details")
  /\ LET handled == handleUrgentDetails(events[callSid].speechResult, callSid)
     IN  /\ collectedData' = handled.data
         /\ callStages' = handled.stages
         /\ Respond(callSid, [NoResponse EXCEPT !.kind = "details", !.gather = TRUE,
                                !.hangup = TRUE, !.text = handled.result.response,
                                !.nextStage = handled.result.nextStage,
                                !.handler = "handleUrgentDetails"])
  /\ UNCHANGED <<conversations, contexts, urgentCases, otherConversations, otherStages, remoteCalls, delivered>>
  /\ UNCHANGED sheetVars

handleAddressCollectionWithVoice_SaveUnguarded(callSid, draws, loggerThrows, outcome) ==
  /\ Dispatched(callSid, "collect_address")
  /\ LET handled == collectAddress(events[callSid].speechResult, callSid, draws, loggerThrows)
     IN  /\ collectedData' = handled.data
         /\ urgentCases' = handled.cases
         /\ callStages' = handled.stages
         /\ initialized' = safeExecute(outcome).initialized
         /\ urgentSheet' = saveUrgentCase(handled.result, outcome)
         /\ Respond(callSid,
                    IF safeExecute(outcome).done
                    THEN [NoResponse EXCEPT !.kind = "address", !.hangup = TRUE,
                                            !.text = handled.result.response,
                                            !.referenceNumber = handled.result.referenceNumber,
                                            !.handler = "collectAddress"]
                    ELSE [NoResponse EXCEPT !.kind = "error", !.hangup = TRUE])
  /\ UNCHANGED <<conversations, contexts, otherConversations, otherStages, remoteCalls, delivered,
                 callbackSheet, callLogsSheet, adminResult, connectionVars>>

handleAddressCollectionWithVoice(callSid, draws, loggerThrows, outcome) ==
  /\ Dispatched(callSid, "collect_address")
  /\ LET handled == collectAddress(events[callSid].speechResult, callSid, draws, loggerThrows)
     IN  /\ collectedData' = handled.data
         /\ urgentCases' = handled.cases
         /\ callStages' = handled.stages
         /\ IF handled.result.caseComplete
            THEN /\ initialized' = safeExecute(outcome).initialized
                 /\ urgentSheet' = saveUrgentCase(handled.result, outcome)
            ELSE UNCHANGED <<initialized, urgentSheet>>
         /\ Respond(callSid, [NoResponse EXCEPT !.kind = "address", !.hangup = TRUE,
                                !.text = handled.result.response,
                                !.referenceNumber = handled.result.referenceNumber,
                                !.handler = "collectAddress"])
  /\ UNCHANGED <<conversations, contexts, otherConversations, otherStages, remoteCalls, delivered,
                 callbackSheet, callLogsSheet, adminResult, connectionVars>>

handleNonUrgentSetupWithVoice(callSid) ==
  /\ Dispatched(callSid, "non_urgent_callback")
  /\ LET handled == handleNonUrgentCallback(events[callSid].speechResult, callSid)
     IN  /\ callStages' = handled.stages
         /\ Respond(callSid, [NoResponse EXCEPT !.kind = "callback_setup", !.gather = TRUE,
                                !.hangup = TRUE, !.text = handled.result.response,
                                !.handler = "handleNonUrgentCallback"])
  /\ UNCHANGED <<conversations, contexts, collectedData, urgentCases, otherConversations, otherStages,
                 remoteCalls, delivered>>
  /\ UNCHANGED sheetVars

handleCallbackSchedulingWithVoice(callSid, draws, loggerThrows, outcome) ==
  /\ Dispatched(callSid, "schedule_callback")
  /\ LET handled == scheduleCallback(events[callSid].speechResult, callSid, draws, loggerThrows)
     IN  /\ collectedData' = handled.data
         /\ callStages' = handled.stages
         /\ initialized' = safeExecute(outcome).initialized
         /\ callbackSheet' = saveCallbackRequest(handled.result, outcome)
         /\ Respond(callSid, [NoResponse EXCEPT !.kind = "callback", !.hangup = TRUE,
                                !.text = handled.result.response,
                                !.referenceNumber = handled.result.referenceNumber,
                                !.handler = "scheduleCallback"])
  /\ UNCHANGED <<conversations, contexts, urgentCases, otherConversations, otherStages, remoteCalls, delivered,
                 urgentSheet, callLogsSheet, adminResult, connectionVars>>

\* the default branch of the stage switch
handleClosedStage(callSid) ==
  /\ Dispatched(callSid, "default")
  /\ Respond(callSid, [NoResponse EXCEPT !.kind = "closing", !.hangup = TRUE,
                                         !.text = "endText"])
  /\ UNCHANGED <<serviceVars, remoteCalls, delivered>>
  /\ UNCHANGED sheetVars

handleError_NoReply(callSid) ==
  /\ events[callSid].pc = "logCall"
  /\ events' = [events EXCEPT ![callSid].pc = "failed"]
  /\ UNCHANGED <<serviceVars, remoteCalls, delivered>>
  /\ UNCHANGED sheetVars

\* an exception escapes the stage switch: the catch of handleGatherInput calls
\* handleError, which answers with the apology and hangs up
handleError(callSid) ==
  /\ events[callSid].pc = "logCall"
  /\ Respond(callSid, [NoResponse EXCEPT !.kind = "error", !.hangup = TRUE,
                                         !.text = "errorText"])
  /\ UNCHANGED <<serviceVars, remoteCalls, delivered>>
  /\ UNCHANGED sheetVars

CallStatuses == {"completed", "no-answer"}

handleCallStatus(callStatus, outcome) ==
  /\ IF callStatus = "completed"
     THEN /\ callLogsSheet < MaxLogRows \/ outcome # "ok"
          /\ initialized' = safeExecute(outcome).initialized
          /\ callLogsSheet' = logCall(outcome)
     ELSE UNCHANGED <<initialized, callLogsSheet>>
  /\ IF callStatus = "completed" /\ cleanup
     THEN /\ conversations' = [c \in CallIds |-> 0]
          /\ callStages' = [c \in CallIds |-> Undefined]
          /\ otherConversations' = 0
          /\ otherStages' = 0
          /\ contexts' = [c \in CallIds |-> Collect(contexts[c], 0, remoteCalls[c])]
     ELSE UNCHANGED <<conversations, callStages, otherConversations, otherStages, contexts>>
  /\ UNCHANGED <<collectedData, urgentCases, remoteCalls, events, delivered,
                 urgentSheet, callbackSheet, adminResult, connectionVars>>

\* what /admin/update-case may be asked
AdminReferences == {"UBG-100000", "UBG-999100", "UBG-555555"}
AdminStatuses == {"Erledigt"}
AdminNotes == {"", "note"}

NoAdminResult ==
  [referenceNumber |-> Undefined, status |-> Undefined, success |-> FALSE, error |-> "none"]

\* the admin route updateCaseStatus of the controller
adminUpdateCase(referenceNumber, status, notes, outcome) ==
  /\ \A i \in 1..Len(urgentSheet) : Len(urgentSheet[i].notes) <= MaxNotes
  /\ LET updated == updateCaseStatus(referenceNumber, status, notes, outcome)
     IN  /\ initialized' = safeExecute(outcome).initialized
         /\ urgentSheet' = updated.rows
         /\ adminResult' = [ referenceNumber |-> referenceNumber, status |-> status,
                             success |-> updated.result.success,
                             error |-> updated.result.error ]
  /\ UNCHANGED <<serviceVars, remoteCalls, events, delivered, callbackSheet, callLogsSheet,
                 connectionVars>>

(***************************************************************************)
(* BusinessSupportService: every handler asks the remote model, and its    *)
(* controller                                                              *)
(***************************************************************************)
BusinessCleanupThreshold == 1000
CompletionConfidence == 90
BusinessFallbackConfidence == 10

\* the referenceNumber field of the JSON object the remote model answers
CompletionReferences == {"UBG-482913", "CBK-482913", "CBK-12345", Undefined}

\* what openai.chat.completions.create may answer: a JSON object, or (parsed
\* FALSE) text that JSON.parse rejects or a transport error
Completions ==
  [ parsed : {TRUE}, urgency : {"urgent", "not_urgent"},
    referenceNumber : CompletionReferences ]
  \cup {[parsed |-> FALSE, urgency |-> Undefined, referenceNumber |-> Undefined]}

\* a handler that changed nothing
Untouched(result) ==
  [result |-> result, stages |-> callStages, data |-> collectedData, cases |-> urgentCases]

BusinessResult(response, urgency, confidence, referenceNumber) ==
  [ response |-> response, urgency |-> urgency, confidence |-> confidence,
    referenceNumber |-> referenceNumber ]

\* the handlers of BusinessSupportService from the point where the remote call
\* has settled
BusinessSupportService_analyzeIssue(speechText, callSid, completion) ==
  IF ~completion.parsed
  THEN Untouched(BusinessResult("analysis_fallback", "urgent", BusinessFallbackConfidence,
                                Undefined))
  ELSE [ Untouched(BusinessResult("ai", completion.urgency, CompletionConfidence, Undefined))
           EXCEPT !.stages = [callStages EXCEPT ![callSid] =
                    IF completion.urgency = "urgent" THEN "urgent_details"
                    ELSE "non_urgent_callback"] ]

BusinessSupportService_handleUrgentDetails(speechText, callSid, completion) ==
  IF ~completion.parsed
  THEN Untouched(BusinessResult("details_fallback", "none", 0, Undefined))
  ELSE [ Untouched(BusinessResult("ai", "none", 0, Undefined))
           EXCEPT !.data = [collectedData EXCEPT ![callSid].detailedMessage = speechText,
                                                 ![callSid].timestamp = Now],
                  !.stages = [callStages EXCEPT ![callSid] = "collect_address"] ]

BusinessSupportService_collectAddress(speechText, callSid, completion) ==
  IF ~completion.parsed
  THEN Untouched(BusinessResult("address_fallback", "none", 0, "UBG-123456"))
  ELSE [ Untouched(BusinessResult("ai", "none", 0, completion.referenceNumber))
           EXCEPT !.data = [collectedData EXCEPT
                              ![callSid].businessAddress = speechText,
                              ![callSid].referenceNumber = completion.referenceNumber,
                              ![callSid].status = "urgent_escalated",
                              ![callSid].estimatedResponse = "ai"],
                  !.cases = urgentCases \cup {callSid},
                  !.stages = [callStages EXCEPT ![callSid] = "urgent_complete"] ]

BusinessSupportService_handleNonUrgentCallback(speechText, callSid, completion) ==
  IF ~completion.parsed
  THEN Untouched(BusinessResult("callback_fallback", "none", 0, Undefined))
  ELSE [ Untouched(BusinessResult("ai", "none", 0, Undefined))
           EXCEPT !.stages = [callStages EXCEPT ![callSid] = "schedule_callback"] ]

BusinessSupportService_scheduleCallback(speechText, callSid, completion) ==
  IF ~completion.parsed
  THEN Untouched(BusinessResult("schedule_fallback", "none", 0, "CBK-123456"))
  ELSE [ Untouched(BusinessResult("ai", "none", 0, completion.referenceNumber))
           EXCEPT !.data = [collectedData EXCEPT
                              ![callSid].callbackTime = speechText,
                              ![callSid].referenceNumber = completion.referenceNumber,
                              ![callSid].status = "callback_scheduled",
                              ![callSid].timestamp = Now],
                  !.stages = [callStages EXCEPT ![callSid] = "callback_complete"] ]

\* the service method each case of the stage switch ends up in
StageHandler ==
  [ initial |-> "analyzeIssue", urgent_details |-> "handleUrgentDetails",
    collect_address |-> "collectAddress", non_urgent_callback |-> "handleNonUrgentCallback",
    schedule_callback |-> "scheduleCallback" ]

BusinessHandled(method, speechText, callSid, completion) ==
  CASE method = "analyzeIssue" ->
         BusinessSupportService_analyzeIssue(speechText, callSid, completion)
    [] method = "handleUrgentDetails" ->
         BusinessSupportService_handleUrgentDetails(speechText, callSid, completion)
    [] method = "collectAddress" ->
         BusinessSupportService_collectAddress(speechText, callSid, completion)
    [] method = "handleNonUrgentCallback" ->
         BusinessSupportService_handleNonUrgentCallback(speechText, callSid, completion)
    [] method = "scheduleCallback" ->
         BusinessSupportService_scheduleCallback(speechText, callSid, completion)

\* the TwiML the five stage functions of the controller build from a result
BusinessResponse(method, result) ==
  [ NoResponse EXCEPT
      !.kind = CASE method = "analyzeIssue" ->
                      IF result.urgency = "urgent" THEN "urgent" ELSE "non_urgent"
                 [] method = "handleUrgentDetails" -> "details"
                 [] method = "collectAddress" -> "address"
                 [] method = "handleNonUrgentCallback" -> "callback_setup"
                 [] method = "scheduleCallback" -> "callback",
      !.gather = method \in {"analyzeIssue", "handleUrgentDetails", "handleNonUrgentCallback"},
      !.hangup = TRUE,
      !.text = result.response,
      !.urgency = result.urgency,
      !.confidence = result.confidence,
      !.referenceNumber = result.referenceNumber,
      \* the catch of handleUrgentDetails returns nextStage 'collect_address'
      !.nextStage = IF result.response = "details_fallback"
                    THEN "collect_address" ELSE Undefined,
      !.handler = method,
      !.remoteCalls = 1 ]

\* a case of the stage switch other than default: the handler runs up to its
\* remote call
handleStageWithVoice(callSid) ==
  /\ events[callSid].pc = "logCall"
  /\ stageCase(events[callSid].currentStage) # "default"
  /\ LET method == StageHandler[stageCase(events[callSid].currentStage)]
     IN  /\ createCompletion(callSid, events[callSid].speechResult, method, TRUE)
         /\ events' = [events EXCEPT
              ![callSid].pc = IF method = "analyzeIssue" THEN "race" ELSE "await",
              ![callSid].response.handler = method,
              ![callSid].response.remoteCalls = 1]
  /\ UNCHANGED <<callStages, conversations, collectedData, urgentCases, otherConversations, otherStages,
                 delivered>>
  /\ UNCHANGED sheetVars

\* the remote call settles and the handler that awaited it runs to its end
completionSettles(callSid, i, completion) ==
  /\ i \in 1..Len(remoteCalls[callSid])
  /\ LET call == remoteCalls[callSid][i]
         handled == BusinessHandled(call.method, call.speechText, callSid, completion)
         left == RemoveAt(remoteCalls[callSid], i)
         stored == IF completion.parsed THEN call.context ELSE conversations[callSid]
         arrays == IF completion.parsed
                   THEN [contexts[callSid] EXCEPT ![call.context] = Append(@, "assistant")]
                   ELSE contexts[callSid]
     IN  /\ callStages' = handled.stages
         /\ collectedData' = handled.data
         /\ urgentCases' = handled.cases
         /\ conversations' = [conversations EXCEPT ![callSid] = stored]
         /\ contexts' = [contexts EXCEPT ![callSid] = Collect(arrays, stored, left)]
         /\ remoteCalls' = [remoteCalls EXCEPT ![callSid] = left]
         /\ IF call.raced
            THEN Respond(callSid, BusinessResponse(call.method, handled.result))
            ELSE UNCHANGED events
  /\ UNCHANGED <<otherConversations, otherStages, delivered>>
  /\ UNCHANGED sheetVars

BusinessSupportService_cleanup == conversationsSize > BusinessCleanupThreshold

businessCallStatus(callStatus) ==
  /\ IF callStatus = "completed" /\ BusinessSupportService_cleanup
     THEN /\ conversations' = [c \in CallIds |-> 0]
          /\ callStages' = [c \in CallIds |-> Undefined]
          /\ otherConversations' = 0
          /\ otherStages' = 0
          /\ contexts' = [c \in CallIds |-> Collect(contexts[c], 0, remoteCalls[c])]
     ELSE UNCHANGED <<conversations, callStages, otherConversations, otherStages, contexts>>
  /\ UNCHANGED <<collectedData, urgentCases, remoteCalls, events, delivered>>
  /\ UNCHANGED sheetVars

\* the state after construction, with the given number of conversations of other calls
InitSession(others, stored, rows) ==
  /\ callStages = [c \in CallIds |-> Undefined]
  /\ conversations = [c \in CallIds |-> 0]
  /\ contexts = [c \in CallIds |-> [id \in ContextIds |-> Free]]
  /\ collectedData = [c \in CallIds |-> EmptyData]
  /\ urgentCases = {}
  /\ otherConversations = others
  /\ otherStages \in stored
  /\ remoteCalls = [c \in CallIds |-> <<>>]
  /\ events = [c \in CallIds |-> NoEvent]
  /\ delivered = 0
  /\ initialized = FALSE
  /\ urgentSheet \in rows
  /\ callbackSheet = <<>>
  /\ callLogsSheet = 0
  /\ adminResult = NoAdminResult

\* the same, with a spreadsheet that has no sheet yet
InitFrom(others, stored, rows) == InitSession(others, stored, rows) /\ InitConnection({})

\* every other call has a stored stage and a stored conversation
InitWith(others, rows) == InitFrom(others, {others}, rows)

\* a process started with an empty urgent sheet
InitOver(others) == InitWith(others, {<<>>})

Init == InitOver(CleanupThreshold)

\* the steps of the program for the given calls, speech results and event budget
NextOver(calls, speech, limit, outcomes) ==
  \/ \E c \in calls, t \in speech, conf \in Confidences, outcome \in outcomes :
       delivered < limit /\ handleGatherInput(c, t, conf, outcome)
  \/ \E c \in calls : handleInitialIssueWithVoice(c)
  \/ \E c \in calls, i \in 1..MaxOutstanding, reply \in RemoteReplies :
       remoteCallSettles(c, i, reply)
  \/ \E c \in calls : analysisTimeout(c)
  \/ \E c \in calls : handleUrgentDetailsWithVoice(c)
  \/ \E c \in calls, draws \in RandomDraws \X RandomDraws, loggerThrows \in BOOLEAN,
          outcome \in outcomes :
       handleAddressCollectionWithVoice(c, draws, loggerThrows, outcome)
  \/ \E c \in calls : handleNonUrgentSetupWithVoice(c)
  \/ \E c \in calls, draws \in RandomDraws \X RandomDraws, loggerThrows \in BOOLEAN,
          outcome \in outcomes :
       handleCallbackSchedulingWithVoice(c, draws, loggerThrows, outcome)
  \/ \E c \in calls : handleClosedStage(c)
  \/ \E status \in CallStatuses, outcome \in outcomes : handleCallStatus(status, outcome)

\* the spreadsheet is not configured: every spreadsheet operation falls back
Next == NextOver(CallIds, CoreSpeech, MaxEvents, {"unavailable"})

Spec == Init /\ [][Next]_vars

\* one call, every speech result
NextClassify == NextOver({"CA1"}, SpeechResults, MaxClassifyEvents, {"unavailable"})

SpecClassify == Init /\ [][NextClassify]_vars

BusinessSpeech == {"ok", "okay", "Server kaputt"}

\* one call served by BusinessSupportService
NextBusiness ==
  \/ \E t \in BusinessSpeech, conf \in Confidences :
       delivered < MaxBusinessEvents /\ handleGatherInput("CA1", t, conf, "unavailable")
  \/ handleStageWithVoice("CA1")
  \/ \E i \in 1..MaxOutstanding, completion \in Completions :
       completionSettles("CA1", i, completion)
  \/ analysisTimeout("CA1")
  \/ handleClosedStage("CA1")
  \/ \E status \in CallStatuses : businessCallStatus(status)

SpecBusiness == InitOver(BusinessCleanupThreshold) /\ [][NextBusiness]_vars

SheetSpeech == {"Server kaputt", "e frag", "guete tag"}

\* one call, with a spreadsheet that may work, be unavailable or throw
NextSheets == NextOver({"CA1"}, SheetSpeech, MaxSheetEvents, SheetOutcomes)

SpecSheets == Init /\ [][NextSheets]_vars

SessionSpeech == {"guete tag", "e frag"}

\* one call followed through more speech events than a single flow takes
NextSession == NextOver({"CA1"}, SessionSpeech, MaxSessionEvents, {"unavailable"})

SpecSession == Init /\ [][NextSession]_vars

\* one call of a caller who speaks English
NextExamples == NextOver({"CA1"}, ExampleSpeech, MaxExampleEvents, {"unavailable"})

SpecExamples == Init /\ [][NextExamples]_vars

CleanupSpeech == {"guete tag", "Server kaputt"}

\* one call next to other calls, some of which were classified by keyword and so
\* have a stored stage and no stored conversation
NextCleanup == NextOver({"CA1"}, CleanupSpeech, MaxCleanupEvents, {"ok", "unavailable"})

SpecCleanup ==
  /\ \E others \in {CleanupThreshold - 1, CleanupThreshold} :
        InitFrom(others, {others, CleanupThreshold + 1}, {<<>>})
  /\ [][NextCleanup]_vars

LiveSpeech == {"guete tag", "e frag"}

\* one call; the spreadsheet may fail and the stage switch may throw
NextLive ==
  \/ NextOver({"CA1"}, LiveSpeech, MaxLiveEvents, SheetOutcomes)
  \/ handleError("CA1")

\* what the event loop does next for a request in flight: the switch once logCall
\* has returned, the remote reply or the 8 s timer while the race is open
Continues(callSid) ==
  \/ handleInitialIssueWithVoice(callSid)
  \/ handleUrgentDetailsWithVoice(callSid)
  \/ \E draws \in RandomDraws \X RandomDraws, loggerThrows \in BOOLEAN,
         outcome \in SheetOutcomes :
       handleAddressCollectionWithVoice(callSid, draws, loggerThrows, outcome)
  \/ handleNonUrgentSetupWithVoice(callSid)
  \/ \E draws \in RandomDraws \X RandomDraws, loggerThrows \in BOOLEAN,
         outcome \in SheetOutcomes :
       handleCallbackSchedulingWithVoice(callSid, draws, loggerThrows, outcome)
  \/ handleClosedStage(callSid)
  \/ handleError(callSid)
  \/ analysisTimeout(callSid)

\* a remote call that was sent is answered or fails
Settles(callSid) ==
  \E i \in 1..MaxOutstanding, reply \in RemoteReplies : remoteCallSettles(callSid, i, reply)

\* awaited promises settle and the timer fires
SpecLive ==
  /\ Init
  /\ [][NextLive]_vars
  /\ WF_vars(Continues("CA1"))
  /\ WF_vars(Settles("CA1"))

\* the urgent sheet outlives the process: what earlier runs may have left in it,
\* two rows with one reference number included (generateReference draws at random)
PriorUrgentRows ==
  { <<>>,
    <<NewRow("UBG-100000", "Neu")>>,
    <<NewRow("UBG-100000", "Neu"), NewRow("UBG-100000", "Neu")>>,
    <<NewRow("UBG-999100", "Neu"), NewRow("UBG-100000", "Neu")>> }

\* one call reporting an urgent case, and the admin route
NextAdmin ==
  \/ \E conf \in Confidences, outcome \in SheetOutcomes :
       delivered < MaxAdminEvents /\ handleGatherInput("CA1", "Server kaputt", conf, outcome)
  \/ handleInitialIssueWithVoice("CA1")
  \/ handleUrgentDetailsWithVoice("CA1")
  \/ \E draws \in RandomDraws \X RandomDraws, loggerThrows \in BOOLEAN,
         outcome \in SheetOutcomes :
       handleAddressCollectionWithVoice("CA1", draws, loggerThrows, outcome)
  \/ \E referenceNumber \in AdminReferences, status \in AdminStatuses,
         notes \in AdminNotes, outcome \in SheetOutcomes :
       adminUpdateCase(referenceNumber, status, notes, outcome)

SpecAdmin == InitWith(CleanupThreshold, PriorUrgentRows) /\ [][NextAdmin]_vars

IssueSpeech == {"Server kaputt", "e frag"}

\* two calls, each classified by keyword and followed to the end of its flow
NextIssue ==
  \/ \E c \in CallIds, t \in IssueSpeech, outcome \in {"ok", "unavailable"} :
       delivered < MaxIssueEvents /\ handleGatherInput(c, t, MinConfidence, outcome)
  \/ \E c \in CallIds : handleInitialIssueWithVoice(c)
  \/ \E c \in CallIds : handleUrgentDetailsWithVoice(c)
  \/ \E c \in CallIds, draws \in RandomDraws \X RandomDraws, loggerThrows \in BOOLEAN,
          outcome \in {"ok", "unavailable"} :
       handleAddressCollectionWithVoice(c, draws, loggerThrows, outcome)
  \/ \E c \in CallIds : handleNonUrgentSetupWithVoice(c)
  \/ \E c \in CallIds, draws \in RandomDraws \X RandomDraws, loggerThrows \in BOOLEAN,
          outcome \in {"ok", "unavailable"} :
       handleCallbackSchedulingWithVoice(c, draws, loggerThrows, outcome)

SpecIssue == Init /\ [][NextIssue]_vars

\* the last response of the call confirmed a case or a callback and hung up: the
\* call is over and Twilio sends no further speech event for it
FlowCompleted(callSid) ==
  /\ events[callSid].pc = "idle"
  /\ events[callSid].response.kind \in {"address", "callback"}
  /\ events[callSid].response.referenceNumber # Undefined

\* one call whose speech events stop with the response that completes its flow
NextHangup ==
  \/ \E t \in SessionSpeech, conf \in Confidences :
       /\ delivered < MaxHangupEvents
       /\ ~FlowCompleted("CA1")
       /\ handleGatherInput("CA1", t, conf, "unavailable")
  \/ handleInitialIssueWithVoice("CA1")
  \/ \E i \in 1..MaxOutstanding, reply \in RemoteReplies : remoteCallSettles("CA1", i, reply)
  \/ analysisTimeout("CA1")
  \/ handleUrgentDetailsWithVoice("CA1")
  \/ \E draws \in RandomDraws \X RandomDraws, loggerThrows \in BOOLEAN :
       handleAddressCollectionWithVoice("CA1", draws, loggerThrows, "unavailable")
  \/ handleNonUrgentSetupWithVoice("CA1")
  \/ \E draws \in RandomDraws \X RandomDraws, loggerThrows \in BOOLEAN :
       handleCallbackSchedulingWithVoice("CA1", draws, loggerThrows, "unavailable")
  \/ \E status \in CallStatuses : handleCallStatus(status, "unavailable")

SpecHangup == Init /\ [][NextHangup]_vars

\* transcripts that pass validateInput: an urgent keyword, a calm keyword, neither
ValidSpeech == {"Server kaputt", "e frag", "guete tag"}

\* one call whose speech events all pass the confidence filter and validateInput
\* and whose remote classifications all settle before the 8 s timer
NextValid ==
  \/ \E t \in ValidSpeech :
       /\ delivered < MaxValidEvents
       /\ handleGatherInput("CA1", t, MinConfidence, "unavailable")
  \/ handleInitialIssueWithVoice("CA1")
  \/ \E i \in 1..MaxOutstanding, reply \in RemoteReplies : remoteCallSettles("CA1", i, reply)
  \/ handleUrgentDetailsWithVoice("CA1")
  \/ \E draws \in RandomDraws \X RandomDraws, loggerThrows \in BOOLEAN :
       handleAddressCollectionWithVoice("CA1", draws, loggerThrows, "unavailable")
  \/ handleNonUrgentSetupWithVoice("CA1")
  \/ \E draws \in RandomDraws \X RandomDraws, loggerThrows \in BOOLEAN :
       handleCallbackSchedulingWithVoice("CA1", draws, loggerThrows, "unavailable")
  \/ handleClosedStage("CA1")
  \/ \E status \in CallStatuses : handleCallStatus(status, "unavailable")

SpecValid == Init /\ [][NextValid]_vars

\* the calls into the spreadsheet service: the constructor's initialize and the
\* persistence operations of requests that arrive meanwhile
NextConnect ==
  \/ \E caller \in Callers : initialize(caller)
  \/ \E caller \in Callers, loaded \in BOOLEAN : loadInfo(caller, loaded)
  \/ \E caller \in Callers, request \in {"ok", "throws"} : getOrCreateSheet(caller, request)
  \/ \E caller \in Callers, outcome \in {"ok", "throws"} : operation(caller, outcome)

\* a document that has none of the sheets, or all of them
InitConnect ==
  \E existing \in {{}, Titles} :
     InitSession(CleanupThreshold, {CleanupThreshold}, {<<>>}) /\ InitConnection(existing)

SpecConnect == InitConnect /\ [][NextConnect]_vars

(***************************************************************************)
(* Properties                                                              *)
(***************************************************************************)
stageOf(stages, c) == IF stages[c] = Undefined THEN "initial" ELSE stages[c]

Edge(from, to) ==
  <<from, to>> \in
    { <<"initial", "urgent_details">>, <<"initial", "non_urgent_callback">>,
      <<"urgent_details", "collect_address">>, <<"collect_address", "urgent_complete">>,
      <<"non_urgent_callback", "schedule_callback">>,
      <<"schedule_callback", "callback_complete">> }

storedContext(convs, arrays, c) == IF convs[c] = 0 THEN <<>> ELSE arrays[c][convs[c]]

containsKeyword(keywords, text) == \E k \in keywords : includes(toLowerCase(text), k)

\* containsKeyword for every speech result, evaluated once
Mentions ==
  [ t \in SpeechResults |->
      [ urgent |-> containsKeyword(urgentKeywords, t),
        calm |-> containsKeyword(nonUrgentKeywords, t) ] ]

\* the step in which the request of call c leaves the stage switch
Leaves(c) == events[c].pc = "logCall" /\ events'[c] # events[c]

\* the step in which a speech event is delivered to call c
Delivered(c) == delivered' = delivered + 1 /\ events'[c] # events[c]

\* the step in which a remote call that lost its race settles
LateSettles(c) ==
  \E i \in 1..Len(remoteCalls[c]) :
     /\ ~remoteCalls[c][i].raced
     /\ remoteCalls'[c] = RemoveAt(remoteCalls[c], i)

\* C1: the stage stored for a call only stays put, follows one of the six edges of
\* the stage graph, or is reset to initial together with every other call's stage
\* (the bulk clear of cleanup).
C1_StageWalk ==
  [][\A c \in CallIds :
       \/ stageOf(callStages', c) = stageOf(callStages, c)
       \/ Edge(stageOf(callStages, c), stageOf(callStages', c))
       \/ callStages' = [d \in CallIds |-> Undefined]]_vars

\* C2: a remote classification that settles after the 8 s timer won the race
\* changes neither the call's stage nor its stored conversation context.
C2_LateResultDiscarded ==
  [][\A c \in CallIds :
       LateSettles(c) =>
         /\ callStages'[c] = callStages[c]
         /\ storedContext(conversations', contexts', c)
              = storedContext(conversations, contexts, c)]_vars

\* C3: at stage initial a valid speech result with equal keyword counts issues
\* exactly one remote call; when the call fails the result is urgent and the stage
\* urgent_details, and when the timer wins the stage is urgent_details as well.
C3_TieGoesRemoteThenUrgent ==
  [][\A c \in CallIds :
       LET t == events[c].speechResult
           answer == events'[c].response
       IN  /\ ( /\ Leaves(c)
                /\ events[c].currentStage = "initial"
                /\ Classified[t].validation.valid
                /\ Classified[t].urgentScore = Classified[t].nonUrgentScore )
              => /\ events'[c].pc = "race"
                 /\ Len(remoteCalls'[c]) = Len(remoteCalls[c]) + 1
           /\ ( /\ events[c].pc = "race"
                /\ events'[c].pc = "idle"
                /\ answer.settled \in {"timeout", "unparsable", "error"} )
              => /\ answer.remoteCalls = 1
                 /\ stageOf(callStages', c) = "urgent_details"
                 /\ answer.settled # "timeout" => answer.urgency = "urgent"]_vars

\* the outcome of classification by keyword: the verdict is answered, the stage is
\* stored, and no remote call is issued
KeywordVerdict(c, urgency, stage) ==
  /\ events'[c].pc = "idle"
  /\ events'[c].response.urgency = urgency
  /\ events'[c].response.remoteCalls = 0
  /\ callStages'[c] = stage
  /\ remoteCalls' = remoteCalls

\* C4 as stated: a speech result of any length that contains an urgent keyword and
\* no non-urgent keyword is answered urgent at stage initial, the stage becomes
\* urgent_details and no remote call is issued.
C4_UrgentKeywordAnyLength ==
  [][\A c \in CallIds :
       ( /\ Leaves(c)
         /\ events[c].currentStage = "initial"
         /\ Mentions[events[c].speechResult].urgent
         /\ ~Mentions[events[c].speechResult].calm )
       => KeywordVerdict(c, "urgent", "urgent_details")]_vars

\* C4 amended: the same for speech results of at most 500 characters.
C4_UrgentKeyword ==
  [][\A c \in CallIds :
       ( /\ Leaves(c)
         /\ events[c].currentStage = "initial"
         /\ Len(events[c].speechResult) <= 500
         /\ Mentions[events[c].speechResult].urgent
         /\ ~Mentions[events[c].speechResult].calm )
       => KeywordVerdict(c, "urgent", "urgent_details")]_vars

C4_Witness ==
  \E c \in CallIds :
     /\ events[c].pc = "idle"
     /\ events[c].speechResult = "Server kaputt"
     /\ events[c].currentStage = "initial"
     /\ events[c].response.urgency = "urgent"
     /\ events[c].response.remoteCalls = 0
     /\ callStages[c] = "urgent_details"

\* C5 as stated: a speech result that contains a non-urgent keyword and no urgent
\* keyword is answered not_urgent at stage initial, the stage becomes
\* non_urgent_callback and no remote call is issued.
C5_CalmKeywordAnyLength ==
  [][\A c \in CallIds :
       ( /\ Leaves(c)
         /\ events[c].currentStage = "initial"
         /\ Mentions[events[c].speechResult].calm
         /\ ~Mentions[events[c].speechResult].urgent )
       => KeywordVerdict(c, "not_urgent", "non_urgent_callback")]_vars

\* C5 amended: the same for speech results of at most 500 characters.
C5_CalmKeyword ==
  [][\A c \in CallIds :
       ( /\ Leaves(c)
         /\ events[c].currentStage = "initial"
         /\ Len(events[c].speechResult) <= 500
         /\ Mentions[events[c].speechResult].calm
         /\ ~Mentions[events[c].speechResult].urgent )
       => KeywordVerdict(c, "not_urgent", "non_urgent_callback")]_vars

C5_Witness ==
  \E c \in CallIds :
     /\ events[c].pc = "idle"
     /\ events[c].speechResult = "e frag"
     /\ events[c].currentStage = "initial"
     /\ events[c].response.urgency = "not_urgent"
     /\ events[c].response.remoteCalls = 0
     /\ callStages[c] = "non_urgent_callback"

\* recognition confidence below 0.4, or a speech result that is empty or shorter
\* than 3 characters once trimmed
TooFaint(event) ==
  \/ event.confidence < 40
  \/ event.speechResult = ""
  \/ Len(trim(event.speechResult)) < 3

\* C6: a speech event with confidence below 0.4 or with an empty or too short
\* speech result is answered, at any stage, by the re-prompt that listens again;
\* no stage handler runs and no remote classification is requested (the prompt
\* itself is synthesised remotely, which touches no state), the stage and the
\* collected fields of the call stay as they were.
C6_FaintSpeechReprompts ==
  [][\A c \in CallIds :
       (Delivered(c) /\ TooFaint(events'[c]))
       => /\ events'[c].pc = "idle"
          /\ events'[c].response.kind = "clarification"
          /\ events'[c].response.gather
          /\ events'[c].response.handler = "none"
          /\ events'[c].response.remoteCalls = 0
          /\ remoteCalls' = remoteCalls
          /\ callStages' = callStages
          /\ collectedData' = collectedData]_vars

C6_Witness ==
  \E c \in CallIds :
     /\ events[c].response.kind = "clarification"
     /\ events[c].confidence < 40
     /\ events[c].speechResult = "Server kaputt"
     /\ callStages[c] = "collect_address"
     /\ collectedData[c].detailedMessage # Undefined

\* an input-quality error: low confidence, or a speech result that is empty, too
\* short, longer than 500 characters, or noise only
PoorInput(event) ==
  \/ TooFaint(event)
  \/ Len(event.speechResult) > 500
  \/ \E i \in 1..Len(noisePatterns) : regexTest(noisePatterns[i], trim(event.speechResult))

\* the step that answers the speech event of call c without a remote call
AnswersAtOnce(c) ==
  \/ Delivered(c) /\ events'[c].pc = "idle"
  \/ Leaves(c) /\ events'[c].pc = "idle"

Answered(c) == IF events[c].pc = "logCall" THEN events[c] ELSE events'[c]

\* C7 as stated: at every stage a speech event with an input-quality error neither
\* advances the stage of the call nor stores a collected field.
C7_PoorInputEveryStage ==
  [][\A c \in CallIds :
       (AnswersAtOnce(c) /\ PoorInput(Answered(c)))
       => /\ callStages'[c] = callStages[c]
          /\ collectedData'[c] = collectedData[c]]_vars

\* C7 amended: the same for a speech event that the confidence filter turns away
\* (at every stage) or that is dispatched to the handler of stage initial,
\* urgent_details or collect_address.
C7_PoorInputValidatedStages ==
  [][\A c \in CallIds :
       ( /\ AnswersAtOnce(c)
         /\ PoorInput(Answered(c))
         /\ \/ Delivered(c)
            \/ events[c].currentStage \in {"initial", "urgent_details", "collect_address"} )
       => /\ callStages'[c] = callStages[c]
          /\ collectedData'[c] = collectedData[c]]_vars

C7_Witness ==
  \E c \in CallIds :
     /\ events[c].pc = "idle"
     /\ events[c].speechResult = "okay"
     /\ events[c].confidence >= 40
     /\ events[c].currentStage = "collect_address"
     /\ events[c].response.handler = "collectAddress"
     /\ callStages[c] = "collect_address"
     /\ collectedData[c].businessAddress = Undefined

Digits == {"0", "1", "2", "3", "4", "5", "6", "7", "8", "9"}

\* the prefix followed by exactly six decimal digits, the first of them not 0
IsReference(prefix, s) ==
  /\ Len(s) = Len(prefix) + 6
  /\ SubSeq(s, 1, Len(prefix)) = prefix
  /\ \A i \in (Len(prefix) + 1)..Len(s) : CharAt(s, i) \in Digits
  /\ CharAt(s, Len(prefix) + 1) # "0"

\* C8: whenever the collect_address handler has answered a speech event, on the
\* normal, the validation-failure or the catch path, the answer carries a reference
\* number made of UBG- and exactly six decimal digits.
C8_AddressReference ==
  \A c \in CallIds :
     (events[c].pc = "idle" /\ events[c].response.handler = "collectAddress")
     => IsReference("UBG-", events[c].response.referenceNumber)

\* C9: whenever the schedule_callback handler has answered a speech event, on the
\* normal or the catch path, the answer carries a reference number made of CBK- and
\* an integer in 100000..999999.
C9_CallbackReference ==
  \A c \in CallIds :
     (events[c].pc = "idle" /\ events[c].response.handler = "scheduleCallback")
     => IsReference("CBK-", events[c].response.referenceNumber)

TerminalStages == Stages \ HandledStages

\* C10: a speech event dispatched while the stored stage of the call is none of the
\* five handled stages is answered by the closing utterance and hang-up without
\* listening again; no handler runs, and the stage, the collected fields and the
\* urgent cases stay as they were.
C10_ClosedStageCloses ==
  [][\A c \in CallIds :
       (Leaves(c) /\ stageOf(callStages, c) \in TerminalStages)
       => /\ events'[c].pc = "idle"
          /\ events'[c].response.kind = "closing"
          /\ events'[c].response.hangup
          /\ ~events'[c].response.gather
          /\ events'[c].response.handler = "none"
          /\ events'[c].response.remoteCalls = 0
          /\ callStages' = callStages
          /\ collectedData' = collectedData
          /\ urgentCases' = urgentCases
          /\ remoteCalls' = remoteCalls]_vars

C10_Witness ==
  \E c \in CallIds :
     /\ events[c].response.kind = "closing"
     /\ callStages[c] \in TerminalStages
     /\ c \in urgentCases

\* C11: when the remote classification answers text that is no JSON object, or an
\* object whose urgency is neither urgent nor not_urgent, the speech event is
\* answered urgent and the stage becomes urgent_details.
C11_MalformedReplyUrgent ==
  [][\A c \in CallIds :
       ( /\ events[c].pc = "race"
         /\ events'[c].pc = "idle"
         /\ events'[c].response.settled \in {"unparsable", "other_urgency"} )
       => /\ events'[c].response.urgency = "urgent"
          /\ callStages'[c] = "urgent_details"]_vars

\* a transcript that is empty, shorter than 3 characters once trimmed, longer than
\* 500 characters, or noise only
RejectedTranscript(t) ==
  \/ t = ""
  \/ Len(trim(t)) < 3
  \/ Len(t) > 500
  \/ \E i \in 1..Len(noisePatterns) : regexTest(noisePatterns[i], trim(t))

\* RejectedTranscript for every speech result, evaluated once
Rejected == [t \in SpeechResults |-> RejectedTranscript(t)]

\* C12: classification of a rejected transcript gives the needs-repeat result
\* (the unclear fallback) and asks for no remote call; when it happens for a speech
\* event at stage initial, no remote call is issued and the stage of the call and
\* its conversation context stay as they were.
C12_RejectedTranscriptNeedsRepeat ==
  [][/\ \A t \in SpeechResults :
          Rejected[t] => analyzeIssue(t) = [remote |-> FALSE, result |-> getFallbackResponse]
     /\ \A c \in CallIds :
          ( /\ Leaves(c)
            /\ events[c].currentStage = "initial"
            /\ Rejected[events[c].speechResult] )
          => /\ events'[c].pc = "idle"
             /\ events'[c].response.text = "unclear"
             /\ events'[c].response.remoteCalls = 0
             /\ remoteCalls' = remoteCalls
             /\ callStages'[c] = callStages[c]
             /\ conversations'[c] = conversations[c]
             /\ contexts'[c] = contexts[c]]_vars

C12_Witness ==
  \E c \in CallIds :
     /\ events[c].pc = "idle"
     /\ events[c].speechResult = LongUrgentSpeech
     /\ events[c].currentStage = "initial"
     /\ events[c].response.text = "unclear"
     /\ conversations[c] # 0

\* C13: whatever the spreadsheet does (works, is unavailable, throws), a speech event
\* that passes the confidence filter goes on to the stage switch; one dispatched at
\* collect_address with a valid transcript moves the call to urgent_complete and is
\* answered by the spoken confirmation with a UBG- reference number; one dispatched
\* at schedule_callback moves the call to callback_complete and is answered by the
\* spoken confirmation with a CBK- reference number.
C13_PersistenceFailureHarmless ==
  [][\A c \in CallIds :
       /\ (Delivered(c) /\ ~TooFaint(events'[c])) => events'[c].pc = "logCall"
       /\ ( /\ Leaves(c)
            /\ events[c].currentStage = "collect_address"
            /\ Classified[events[c].speechResult].validation.valid )
          => /\ callStages'[c] = "urgent_complete"
             /\ events'[c].pc = "idle"
             /\ events'[c].response.kind = "address"
             /\ events'[c].response.text \in {"escalated", "escalated_fallback"}
             /\ IsReference("UBG-", events'[c].response.referenceNumber)
       /\ (Leaves(c) /\ events[c].currentStage = "schedule_callback")
          => /\ callStages'[c] = "callback_complete"
             /\ events'[c].pc = "idle"
             /\ events'[c].response.kind = "callback"
             /\ events'[c].response.text \in {"scheduled", "scheduled_fallback"}
             /\ IsReference("CBK-", events'[c].response.referenceNumber)]_vars

\* the address was confirmed with a reference number while the spreadsheet, never
\* initialised, holds no row and no call log
C13_Witness ==
  \E c \in CallIds :
     /\ events[c].pc = "idle"
     /\ events[c].response.kind = "address"
     /\ IsReference("UBG-", events[c].response.referenceNumber)
     /\ callStages[c] = "urgent_complete"
     /\ ~initialized
     /\ urgentSheet = <<>>
     /\ callLogsSheet = 0

\* the step of an update request on the admin route (the one step of NextAdmin that
\* leaves every call's request as it was)
UpdateRequest == events' = events /\ delivered' = delivered

\* the rows that carry the reference number
Matching(rows, referenceNumber) ==
  {i \in 1..Len(rows) : rows[i].referenceNumber = referenceNumber}

\* C14: an update request whose reference number matches no row of the urgent sheet
\* leaves every row as it was and is answered success=false with an error; a
\* request that changes the sheet changes one row only, the first that carries the
\* reference number, and sets its status to the one requested.
C14_UpdateFirstMatchOrFail ==
  [][UpdateRequest =>
       LET referenceNumber == adminResult'.referenceNumber
           matching == Matching(urgentSheet, referenceNumber)
       IN  /\ Len(urgentSheet') = Len(urgentSheet)
           /\ matching = {}
              => /\ urgentSheet' = urgentSheet
                 /\ ~adminResult'.success
                 /\ adminResult'.error # "none"
           /\ adminResult'.success
              => /\ matching # {}
                 /\ \A i \in matching :
                      (\A j \in matching : i <= j)
                      => /\ urgentSheet'[i].status = adminResult'.status
                         /\ urgentSheet'[i].referenceNumber = referenceNumber
           /\ \A i \in 1..Len(urgentSheet) :
                urgentSheet'[i] # urgentSheet[i]
                => /\ adminResult'.success
                   /\ i \in matching
                   /\ \A j \in matching : i <= j]_vars

\* of two rows with one reference number the first was updated, the second was not
C14_Witness ==
  /\ adminResult.success
  /\ Len(urgentSheet) >= 2
  /\ urgentSheet[1].referenceNumber = adminResult.referenceNumber
  /\ urgentSheet[2].referenceNumber = adminResult.referenceNumber
  /\ urgentSheet[1].status = "Erledigt"
  /\ urgentSheet[1].notes = <<"created", "note">>
  /\ urgentSheet[2] = NewRow(adminResult.referenceNumber, "Neu")

\* an update request for a reference number no row carries was refused
C14_WitnessUnknown ==
  /\ adminResult.referenceNumber = "UBG-555555"
  /\ adminResult.error = "Case not found"
  /\ urgentSheet # <<>>

\* C15: in every reachable state each session that getUrgentCases returns has
\* status urgent_escalated and a UBG- reference number, each session that
\* getScheduledCallbacks returns has status callback_scheduled, and no session is
\* in both lists.
C15_ListsFollowFlows ==
  /\ \A session \in getUrgentCases :
        /\ session.status = "urgent_escalated"
        /\ IsReference("UBG-", session.referenceNumber)
  /\ \A session \in getScheduledCallbacks : session.status = "callback_scheduled"
  /\ getUrgentCases \cap getScheduledCallbacks = {}

\* a step in the processing of a speech event of call a: its delivery, its dispatch
\* to a stage handler, or the settling of its remote call or timer
Processes(a) == events'[a] # events[a] \/ remoteCalls'[a] # remoteCalls[a]

\* C16: a step in the processing of a speech event of call A, at whatever stage and
\* however the events of the two calls interleave, leaves the stage, the collected
\* fields, the conversation context, the urgent-case entry, the request and the
\* remote calls of every other call B as they were.
C16_OtherCallsUntouched ==
  [][\A a \in CallIds : \A b \in CallIds \ {a} :
       Processes(a)
       => /\ callStages'[b] = callStages[b]
          /\ collectedData'[b] = collectedData[b]
          /\ conversations'[b] = conversations[b]
          /\ contexts'[b] = contexts[b]
          /\ (b \in urgentCases') = (b \in urgentCases)
          /\ events'[b] = events[b]
          /\ remoteCalls'[b] = remoteCalls[b]]_vars

\* two calls part-way through different flows, one of them with a request in flight
C16_Witness ==
  /\ callStages["CA1"] = "collect_address"
  /\ collectedData["CA1"].detailedMessage # Undefined
  /\ callStages["CA2"] = "non_urgent_callback"
  /\ events["CA2"].pc = "idle"
  /\ events["CA1"].pc = "logCall"

\* the step that answers the speech event t of call c, read at stage initial
AnswersInitial(c, t) ==
  /\ events[c].pc \in {"logCall", "race"}
  /\ events[c].currentStage = "initial"
  /\ events[c].speechResult = t
  /\ events'[c].pc = "idle"

\* the step that dispatches the speech event t of call c, read at stage initial
DispatchesInitial(c, t) ==
  /\ Leaves(c)
  /\ events[c].currentStage = "initial"
  /\ events[c].speechResult = t

\* C17 as stated: the speech event "our website is completely down and customers
\* can't pay", read at stage initial, is answered urgent and the stage of the call
\* becomes urgent_details.
C17_WebsiteDownUrgent ==
  [][\A c \in CallIds :
       AnswersInitial(c, WebsiteDown)
       => /\ events'[c].response.urgency = "urgent"
          /\ callStages'[c] = "urgent_details"]_vars

\* C17 amended: the transcript matches no keyword of either list, so its dispatch
\* at stage initial requests one remote classification; the event is answered
\* urgent with stage urgent_details when the reply arrives before the 8 s timer
\* and says urgent, is no JSON, or is a transport error.
C17_WebsiteDownRemote ==
  [][\A c \in CallIds :
       /\ DispatchesInitial(c, WebsiteDown)
          => /\ Classified[WebsiteDown].urgentScore = 0
             /\ Classified[WebsiteDown].nonUrgentScore = 0
             /\ events'[c].pc = "race"
             /\ Len(remoteCalls'[c]) = Len(remoteCalls[c]) + 1
       /\ ( /\ AnswersInitial(c, WebsiteDown)
            /\ events'[c].response.settled \in {"urgent", "unparsable", "error"} )
          => /\ events'[c].response.urgency = "urgent"
             /\ callStages'[c] = "urgent_details"]_vars

\* the reply of the remote classifier was no JSON and the website outage was
\* escalated
C17_Witness ==
  \E c \in CallIds :
     /\ events[c].pc = "idle"
     /\ events[c].speechResult = WebsiteDown
     /\ events[c].currentStage = "initial"
     /\ events[c].response.settled = "unparsable"
     /\ events[c].response.remoteCalls = 1
     /\ events[c].response.urgency = "urgent"
     /\ callStages[c] = "urgent_details"

\* C18 as stated: the speech event "how do I change my account settings", read at
\* stage initial, is answered not_urgent and the stage of the call becomes
\* non_urgent_callback.
C18_AccountSettingsCalm ==
  [][\A c \in CallIds :
       AnswersInitial(c, AccountSettings)
       => /\ events'[c].response.urgency = "not_urgent"
          /\ callStages'[c] = "non_urgent_callback"]_vars

\* C18 amended: the transcript matches no keyword of either list, so its dispatch
\* at stage initial requests one remote classification; the event is answered
\* not_urgent with stage non_urgent_callback when the reply arrives before the 8 s
\* timer and says not_urgent.
C18_AccountSettingsRemote ==
  [][\A c \in CallIds :
       /\ DispatchesInitial(c, AccountSettings)
          => /\ Classified[AccountSettings].urgentScore = 0
             /\ Classified[AccountSettings].nonUrgentScore = 0
             /\ events'[c].pc = "race"
             /\ Len(remoteCalls'[c]) = Len(remoteCalls[c]) + 1
       /\ ( /\ AnswersInitial(c, AccountSettings)
            /\ events'[c].response.settled = "not_urgent" )
          => /\ events'[c].response.urgency = "not_urgent"
             /\ callStages'[c] = "non_urgent_callback"]_vars

\* the remote classifier called the account question not urgent
C18_Witness ==
  \E c \in CallIds :
     /\ events[c].pc = "idle"
     /\ events[c].speechResult = AccountSettings
     /\ events[c].currentStage = "initial"
     /\ events[c].response.settled = "not_urgent"
     /\ events[c].response.remoteCalls = 1
     /\ events[c].response.urgency = "not_urgent"
     /\ callStages[c] = "non_urgent_callback"

\* the stage map is cleared in bulk
BulkClear == callStages # [c \in CallIds |-> Undefined] /\ callStages' = [c \in CallIds |-> Undefined]

\* C20: getCallStage gives initial for a call with no stored stage and the stored
\* stage otherwise, and that is the stage an accepted speech event is dispatched
\* on; a call whose classification at stage initial was rejected still has no
\* stored stage and reads as initial, and so does every call after a bulk clear.
C20_StageDefaultsToInitial ==
  [][\A c \in CallIds :
       /\ getCallStage(c) = IF callStages[c] = Undefined THEN "initial" ELSE callStages[c]
       /\ (Delivered(c) /\ events'[c].pc = "logCall")
          => events'[c].currentStage =
               IF callStages[c] = Undefined THEN "initial" ELSE callStages[c]
       /\ ( /\ Leaves(c)
            /\ callStages[c] = Undefined
            /\ events'[c].pc = "idle"
            /\ events'[c].response.text = "unclear" )
          => getCallStage(c)' = "initial"
       /\ BulkClear => getCallStage(c)' = "initial"]_vars

\* a call that had given its details is read at stage initial after a bulk clear
C20_Witness ==
  \E c \in CallIds :
     /\ events[c].pc = "logCall"
     /\ events[c].currentStage = "initial"
     /\ callStages[c] = Undefined
     /\ collectedData[c].detailedMessage # Undefined

\* C19: every speech event delivered is answered: a request in flight (past the
\* confidence filter, waiting for the stage switch or for the classification race)
\* eventually has its response, whatever the remote classifier, the spreadsheet
\* or the stage switch do; and a response is written only for an event being
\* delivered or in flight, so no event is answered twice.
C19_EveryEventAnswered ==
  /\ \A c \in {"CA1"} : (events[c].pc # "idle") ~> (events[c].pc = "idle")
  /\ [][\A c \in {"CA1"} :
          /\ (events'[c] # events[c] /\ events[c].pc = "idle") => Delivered(c)
          /\ Delivered(c) => events[c].pc = "idle"
          /\ (Delivered(c) /\ events'[c].pc = "idle") => events'[c].response.kind # "none"
          /\ (Leaves(c) \/ events[c].pc = "race") /\ events'[c] # events[c]
             => \/ events'[c].pc = "idle" /\ events'[c].response.kind # "none"
                \/ events[c].pc = "logCall" /\ events'[c].pc = "race"]_vars

\* the stage switch threw and the event was answered by the apology and hang-up
C19_Witness ==
  \E c \in CallIds :
     /\ events[c].pc = "idle"
     /\ events[c].response.kind = "error"
     /\ events[c].response.hangup
     /\ events[c].currentStage = "collect_address"

\* the stage at which the speech event answered in this step was taken: the stored
\* stage when the confidence filter answers, the stage read for the switch otherwise
AnsweredStage(c) ==
  IF events[c].pc = "logCall" THEN stageCase(events[c].currentStage)
  ELSE stageCase(getCallStage(c))

\* C21: whenever a speech event with an input-quality error (low confidence, or a
\* transcript that is empty, too short, too long or noise only) is answered at one
\* of the five handled stages, the response listens again: a gather is issued.
C21_RejectedInputListensAgain ==
  [][\A c \in CallIds :
       ( /\ AnswersAtOnce(c)
         /\ PoorInput(Answered(c))
         /\ AnsweredStage(c) \in HandledStages )
       => events'[c].response.gather]_vars

\* the step in which the switch hands the speech event of call c to the handler of
\* the given stage
Handles(c, stage) == Leaves(c) /\ stageCase(events[c].currentStage) = stage

\* C22: the urgent_details handler, given a valid transcript, stores it as
\* detailedMessage together with a timestamp and sets the stage to collect_address;
\* given a transcript that fails validation it changes neither the stage nor any
\* collected field and answers with the clarification request and nextStage
\* urgent_details.
C22_UrgentDetailsHandler ==
  [][\A c \in CallIds :
       Handles(c, "urgent_details")
       => IF Rejected[events[c].speechResult]
          THEN /\ callStages' = callStages
               /\ collectedData' = collectedData
               /\ events'[c].response.text = "need_details"
               /\ events'[c].response.nextStage = "urgent_details"
          ELSE /\ callStages'[c] = "collect_address"
               /\ collectedData'[c] =
                    [collectedData[c] EXCEPT !.detailedMessage = events[c].speechResult,
                                             !.timestamp = Now]
               /\ events'[c].response.text = "got_details"
               /\ events'[c].response.nextStage = "collect_address"]_vars

\* noise at urgent_details was answered by the clarification request, the stage kept
C22_Witness ==
  \E c \in CallIds :
     /\ events[c].pc = "idle"
     /\ events[c].response.handler = "handleUrgentDetails"
     /\ events[c].response.text = "need_details"
     /\ events[c].speechResult = "okay"
     /\ callStages[c] = "urgent_details"
     /\ collectedData[c].detailedMessage = Undefined

\* C23: the collect_address handler, given a valid address, stores it as
\* businessAddress together with a UBG- reference number, status urgent_escalated
\* and an estimated response window, adds the call to the urgent cases and sets
\* the stage to urgent_complete, all in the step that answers the event; that
\* response hangs up and does not listen again.
C23_AddressCompletesCase ==
  [][\A c \in CallIds :
       (Handles(c, "collect_address") /\ ~Rejected[events[c].speechResult])
       => /\ collectedData'[c].businessAddress = events[c].speechResult
          /\ IsReference("UBG-", collectedData'[c].referenceNumber)
          /\ collectedData'[c].status = "urgent_escalated"
          /\ collectedData'[c].estimatedResponse # Undefined
          /\ c \in urgentCases'
          /\ collectedData'[c] \in getUrgentCases'
          /\ callStages'[c] = "urgent_complete"
          /\ events'[c].pc = "idle"
          /\ events'[c].response.hangup
          /\ ~events'[c].response.gather]_vars

\* a call whose address was taken is an urgent case at stage urgent_complete
C23_Witness ==
  \E c \in CallIds :
     /\ events[c].pc = "idle"
     /\ events[c].response.handler = "collectAddress"
     /\ events[c].response.text = "escalated"
     /\ collectedData[c].businessAddress = "Server kaputt"
     /\ collectedData[c].detailedMessage = "Server kaputt"
     /\ c \in urgentCases
     /\ callStages[c] = "urgent_complete"

\* C24: the non_urgent_callback handler, whatever the transcript, sets the stage
\* of the call to schedule_callback and changes neither the collected fields, nor
\* the conversation context, nor the urgent cases, nor the scheduled callbacks.
C24_NonUrgentCallbackFrame ==
  [][\A c \in CallIds :
       Handles(c, "non_urgent_callback")
       => /\ callStages'[c] = "schedule_callback"
          /\ collectedData' = collectedData
          /\ conversations' = conversations
          /\ contexts' = contexts
          /\ urgentCases' = urgentCases
          /\ getUrgentCases' = getUrgentCases
          /\ getScheduledCallbacks' = getScheduledCallbacks]_vars

\* a noise transcript at non_urgent_callback moved the call to schedule_callback
C24_Witness ==
  \E c \in CallIds :
     /\ events[c].pc = "idle"
     /\ events[c].response.handler = "handleNonUrgentCallback"
     /\ events[c].speechResult = "okay"
     /\ callStages[c] = "schedule_callback"

\* C25: the schedule_callback handler stores the transcript as callbackTime
\* together with a CBK- reference number and status callback_scheduled and sets
\* the stage to callback_complete, and the session is in the list of scheduled
\* callbacks in that state and in every later state.
C25_CallbackListedFromThenOn ==
  [][\A c \in CallIds :
       /\ Handles(c, "schedule_callback")
          => /\ collectedData'[c].callbackTime = events[c].speechResult
             /\ IsReference("CBK-", collectedData'[c].referenceNumber)
             /\ collectedData'[c].status = "callback_scheduled"
             /\ callStages'[c] = "callback_complete"
             /\ collectedData'[c] \in getScheduledCallbacks'
       /\ collectedData[c].status = "callback_scheduled"
          => collectedData'[c] \in getScheduledCallbacks']_vars

\* the call ids with a stored stage
TrackedSessions == Cardinality({c \in CallIds : callStages[c] # Undefined}) + otherStages

\* the step of a call-status webhook with status completed whose call log was written
CompletedLogged ==
  /\ events' = events
  /\ delivered' = delivered
  /\ callLogsSheet' = callLogsSheet + 1

\* C26: when cleanup runs (a call completes) while more call ids have a stored
\* stage than the ceiling allows, the stage map and the conversation map are
\* cleared; when their number is at or below the ceiling, cleanup changes nothing.
C26_CleanupAtCeiling ==
  [][CompletedLogged
     => IF TrackedSessions > CleanupThreshold
        THEN /\ callStages' = [c \in CallIds |-> Undefined]
             /\ otherStages' = 0
             /\ conversations' = [c \in CallIds |-> 0]
             /\ otherConversations' = 0
        ELSE UNCHANGED serviceVars]_vars

\* the turns of the context stored for call c, none when there is no entry
StoredTurns(c) == IF conversations[c] = 0 THEN <<>> ELSE contexts[c][conversations[c]]

\* C27: the conversation context stored for a call changes only in the step in
\* which a remote classification of that call succeeds, and then by the user turn
\* followed by the assistant turn appended to it; a keyword verdict, a rejected
\* transcript, and a remote call that fails or loses against the timer leave it as
\* it was (the bulk clear of cleanup aside).
C27_ContextOnlyOnSuccess ==
  [][\A c \in CallIds :
       StoredTurns(c)' # StoredTurns(c)
       => \/ conversations' = [d \in CallIds |-> 0]
          \/ /\ \E i \in 1..Len(remoteCalls[c]) : remoteCalls'[c] = RemoveAt(remoteCalls[c], i)
             /\ StoredTurns(c)' = StoredTurns(c) \o <<"user", "assistant">>]_vars

\* C29: when the remote classification fails (no JSON, or a transport error) and
\* the fallback answers urgent, the confidence reported is strictly lower than the
\* confidence reported for a verdict decided by keyword match.
C29_FallbackLowConfidence ==
  [][\A c \in CallIds :
       ( /\ events[c].pc = "race"
         /\ events'[c].pc = "idle"
         /\ events'[c].response.settled \in {"unparsable", "error"}
         /\ events'[c].response.urgency = "urgent" )
       => events'[c].response.confidence < getQuickResponse("urgent").confidence]_vars

\* the step that answers a speech event of call c and completes its flow
Completes(c) ==
  /\ events'[c] # events[c]
  /\ events'[c].pc = "idle"
  /\ callStages'[c] # callStages[c]
  /\ callStages'[c] \in {"urgent_complete", "callback_complete"}

\* C28: a speech event answered by the collect_address or schedule_callback
\* handler after an internal failure (its catch path) is answered with a reference
\* number, and so is every speech event that completes a flow.
C28_CompletionCarriesReference ==
  [][\A c \in CallIds :
       /\ ( /\ events'[c] # events[c]
            /\ events'[c].pc = "idle"
            /\ events'[c].response.text \in
                 {"escalated_fallback", "scheduled_fallback", "address_fallback",
                  "schedule_fallback"} )
          => events'[c].response.referenceNumber # Undefined
       /\ Completes(c) => events'[c].response.referenceNumber # Undefined]_vars

\* C30: a row is added to the urgent sheet only in the step in which the
\* collect_address handler answers with a completed case, and to the callback
\* sheet only in the step in which the schedule_callback handler answers with a
\* scheduled callback; it is one row, and its reference number is the one of the
\* response of that step.
C30_SavedOncePerCompletion ==
  [][/\ urgentSheet' # urgentSheet
        => \E c \in CallIds :
             /\ Handles(c, "collect_address")
             /\ events'[c].response.text \in {"escalated", "escalated_fallback"}
             /\ Len(urgentSheet') = Len(urgentSheet) + 1
             /\ SubSeq(urgentSheet', 1, Len(urgentSheet)) = urgentSheet
             /\ urgentSheet'[Len(urgentSheet')].referenceNumber =
                  events'[c].response.referenceNumber
     /\ callbackSheet' # callbackSheet
        => \E c \in CallIds :
             /\ Handles(c, "schedule_callback")
             /\ events'[c].response.text \in {"scheduled", "scheduled_fallback"}
             /\ Len(callbackSheet') = Len(callbackSheet) + 1
             /\ SubSeq(callbackSheet', 1, Len(callbackSheet)) = callbackSheet
             /\ callbackSheet'[Len(callbackSheet')].referenceNumber =
                  events'[c].response.referenceNumber]_vars

\* the case saved on the catch path carries the reference number spoken to the
\* caller, which is not the one stored for the call
C30_Witness ==
  \E c \in CallIds :
     /\ events[c].pc = "idle"
     /\ events[c].response.text = "escalated_fallback"
     /\ Len(urgentSheet) = 1
     /\ urgentSheet[1].referenceNumber = events[c].response.referenceNumber
     /\ collectedData[c].referenceNumber # events[c].response.referenceNumber

\* the stages of a call in progress
InProgressStages ==
  {"urgent_details", "collect_address", "non_urgent_callback", "schedule_callback"}

\* the step of a call-status webhook: no speech event is delivered, dispatched or
\* answered and no remote call is sent or settles
StatusCallback ==
  /\ events' = events
  /\ delivered' = delivered
  /\ remoteCalls' = remoteCalls
  /\ adminResult' = adminResult

\* C31: a call in progress (stage urgent_details, collect_address,
\* non_urgent_callback or schedule_callback) keeps its stage across the
\* completion status callback of any other call: the cleanup that callback runs
\* does not reset the stage to initial.
C31_CleanupSparesCallsInProgress ==
  [][\A c \in CallIds :
       (StatusCallback /\ callStages[c] \in InProgressStages)
       => callStages'[c] = callStages[c]]_vars

\* what the prompts a response plays before its gather ask the caller for
Requested(response) ==
  CASE response.kind = "clarification" -> {"problem"}
    [] response.kind = "urgent" -> {"details"}
    [] response.kind = "non_urgent" ->
         IF response.text = "unclear" THEN {"problem"} ELSE {}
    [] response.kind = "fallback" -> {"details"}
    [] response.kind = "details" ->
         IF response.text = "need_details" THEN {"details", "address"} ELSE {"address"}
    [] response.kind = "callback_setup" -> {"callback_time"}
    [] OTHER -> {}

\* the step in which a speech event of call c is answered
Answers(c) == events'[c] # events[c] /\ events'[c].pc = "idle"

\* C32: when a response listens again, what it asked for matches the stage stored
\* for the call, at which the next transcript is handled: details only at
\* urgent_details, the address only at collect_address, a callback time only at
\* schedule_callback.
C32_QuestionMatchesStage ==
  [][\A c \in CallIds :
       (Answers(c) /\ events'[c].response.gather)
       => LET asked == Requested(events'[c].response)
              stage == stageOf(callStages', c)
          IN  /\ "details" \in asked => stage = "urgent_details"
              /\ "address" \in asked => stage = "collect_address"
              /\ "callback_time" \in asked => stage = "schedule_callback"]_vars

startsWith(s, prefix) == Len(s) >= Len(prefix) /\ SubSeq(s, 1, Len(prefix)) = prefix

\* C33: whenever a handler returns a reference number, that number is the one
\* stored in the collected fields of the call and the stored stage is the matching
\* terminal stage (urgent_complete for UBG-, callback_complete for CBK-); and the
\* nextStage a handler returns is the stage stored when it has returned.
C33_ReturnedMatchesStored ==
  [][\A c \in CallIds :
       Answers(c)
       => LET response == events'[c].response
          IN  /\ response.referenceNumber # Undefined
                 => /\ collectedData'[c].referenceNumber = response.referenceNumber
                    /\ startsWith(response.referenceNumber, "UBG-")
                       => callStages'[c] = "urgent_complete"
                    /\ startsWith(response.referenceNumber, "CBK-")
                       => callStages'[c] = "callback_complete"
              /\ response.nextStage # Undefined
                 => callStages'[c] = response.nextStage]_vars

\* the reference numbers issued to call c: the one stored for it and the one its
\* last response carries
Issued(c) ==
  {collectedData[c].referenceNumber, events[c].response.referenceNumber} \ {Undefined}

\* C34: reference numbers issued to distinct calls are pairwise distinct, so no
\* two rows of the urgent sheet and no two rows of the callback sheet carry the
\* same reference number and an update by reference number finds one case.
C34_ReferencesDistinct ==
  /\ \A a, b \in CallIds : a # b => Issued(a) \cap Issued(b) = {}
  /\ \A i, j \in 1..Len(urgentSheet) :
        i # j => urgentSheet[i].referenceNumber # urgentSheet[j].referenceNumber
  /\ \A i, j \in 1..Len(callbackSheet) :
        i # j => callbackSheet[i].referenceNumber # callbackSheet[j].referenceNumber

\* C35: when no speech event is delivered for a call after the response that
\* completed its flow and hung up, no call is listed both among the urgent cases
\* and among the scheduled callbacks, and the status and the reference number of
\* a listed urgent case are never overwritten.
C35_OneListPerCall ==
  /\ [](\A c \in CallIds :
          ~(collectedData[c] \in getUrgentCases /\ collectedData[c] \in getScheduledCallbacks))
  /\ [][\A c \in urgentCases :
          /\ collectedData'[c].status = collectedData[c].status
          /\ collectedData'[c].referenceNumber = collectedData[c].referenceNumber]_vars

\* a call that completed the urgent flow with the last speech event of the budget
\* and hung up: listed as urgent case and not as scheduled callback
C35_Witness ==
  \E c \in CallIds :
     /\ FlowCompleted(c)
     /\ c \in urgentCases
     /\ collectedData[c] \in getUrgentCases
     /\ collectedData[c] \notin getScheduledCallbacks
     /\ events[c].response.kind = "address"
     /\ callStages[c] = "urgent_complete"
     /\ delivered = MaxHangupEvents

\* C36: in every reachable state a call with stored stage urgent_complete has a
\* detailedMessage, a businessAddress, a UBG- reference number and status
\* urgent_escalated stored, and a call with stored stage callback_complete has a
\* callbackTime, a CBK- reference number and status callback_scheduled stored.
C36_CompleteStageHasFields ==
  \A c \in CallIds :
     /\ callStages[c] = "urgent_complete"
        => /\ collectedData[c].detailedMessage # Undefined
           /\ collectedData[c].businessAddress # Undefined
           /\ IsReference("UBG-", collectedData[c].referenceNumber)
           /\ collectedData[c].status = "urgent_escalated"
     /\ callStages[c] = "callback_complete"
        => /\ collectedData[c].callbackTime # Undefined
           /\ IsReference("CBK-", collectedData[c].referenceNumber)
           /\ collectedData[c].status = "callback_scheduled"

\* a call that completed the callback flow after it had completed the urgent flow
C36_Witness ==
  \E c \in CallIds :
     /\ callStages[c] = "callback_complete"
     /\ collectedData[c].callbackTime # Undefined
     /\ collectedData[c].businessAddress # Undefined
     /\ c \in urgentCases

\* a call that completed the urgent flow
C36_WitnessUrgent ==
  \E c \in CallIds :
     /\ callStages[c] = "urgent_complete"
     /\ collectedData[c].status = "urgent_escalated"
     /\ events[c].response.kind = "address"

\* C37: when every speech event of a call has confidence at least 0.4 and a valid
\* transcript and every remote classification answers before the timeout, the
\* answer to the third speech event leaves the call at urgent_complete or
\* callback_complete, and the answers to the first and second do not.
C37_ThreeEventsComplete ==
  [][\A c \in {"CA1"} :
       Answers(c)
       => /\ delivered = 3 => stageOf(callStages', c) \in TerminalStages
          /\ delivered < 3 => stageOf(callStages', c) \notin TerminalStages]_vars

\* the calls whose session getScheduledCallbacks returns
ScheduledCalls == {c \in CallIds : collectedData[c] \in getScheduledCallbacks}

\* C38: the registry only grows: a call whose session is returned by
\* getUrgentCases or getScheduledCallbacks is returned by it in the next state as
\* well, collected fields once stored are never removed, and cleanup (the step of
\* a call-status webhook) changes no collected field and no registry entry.
C38_RegistryOnlyGrows ==
  [][/\ urgentCases \subseteq urgentCases'
     /\ ScheduledCalls \subseteq ScheduledCalls'
     /\ \A c \in CallIds :
          \A field \in DOMAIN EmptyData :
             collectedData[c][field] # Undefined => collectedData'[c][field] # Undefined
     /\ StatusCallback => UNCHANGED <<collectedData, urgentCases>>]_vars

\* C39: whenever initialized is set, the three sheet handles are non-null; the
\* body of a persistence operation runs only while initialized is set; and
\* initialized, once set, is never cleared.
C39_InitializedMeansReady ==
  /\ [](initialized => \A title \in Titles : handles[title])
  /\ [](\A caller \in Callers : sheetCalls[caller] = "operation" => initialized)
  /\ [][initialized => initialized']_vars

\* the callers that are inside the load-and-create sequence of initialize
Initializing == {caller \in Callers : sheetCalls[caller] \in {"loadInfo"} \cup Titles}

\* C40: the connection is initialised at most once: of the start-up initialisation
\* and the persistence operations that run before initialized is set, at most one
\* is inside the load-and-create sequence at a time, and doc.addSheet is requested
\* at most once per sheet.
C40_InitializedOnce ==
  /\ Cardinality(Initializing) <= 1
  /\ \A title \in Titles : addSheetCalls[title] <= 1
====
